---------------------------- MODULE Spec2Model ----------------------------
(***************************************************************************)
(* Model of the trading-results read service: the cutoff clock             *)
(* (app/core/timeutils.py), the cache key builder and cache adapter        *)
(* (app/core/caching.py), the query repository                             *)
(* (app/repositories/spimex_repo.py) and the per-request pipeline of the   *)
(* query service (app/services/spimex_service.py).                         *)
(*                                                                         *)
(* Time.  An instant is a number of ticks since 2023-03-24T00:00:00Z, with *)
(* SubSec ticks per second (Python's datetime has 10^6; the model keeps a  *)
(* sub-second component but a coarser one).  A local datetime is the wall  *)
(* reading of an instant in a zone, in ticks since 2023-03-24 00:00 on the *)
(* wall clock.                                                             *)
(***************************************************************************)
EXTENDS Integers, Sequences, FiniteSets, TLC

VARIABLES
    now,        \* the current instant (ticks)
    tzname,     \* settings.CACHE_TZ of the running process
    cache,      \* the Redis database: key -> entry
    relation,   \* the rows of spimex_trading_results
    flushes,    \* the instants at which the scheduler ran flush_all
    req,        \* the requests: id -> position in the service pipeline
    clk,        \* one evaluation of seconds_until_next_cutoff
    kb          \* one evaluation of make_cache_key on two mappings

vars == <<now, tzname, cache, relation, flushes, req, clk, kb>>

None == "None"

(***************************************************************************)
(* Bounds of the model.                                                    *)
(***************************************************************************)
SubSec == 2          \* ticks per second
NumReq == 2          \* requests handled in one behaviour

(***************************************************************************)
(* Calendar constants.                                                     *)
(***************************************************************************)
SecPerMinute == 60
SecPerHour == 3600
SecPerDay == 86400
DayTicks == SecPerDay * SubSec

(***************************************************************************)
(* settings (app/core/config.py).                                          *)
(***************************************************************************)
CACHE_RESET_HOUR == 14
CACHE_RESET_MINUTE == 11
MAX_LAST_DATES == 60
MAX_DYNAMICS_SPAN_DAYS == 366

(***************************************************************************)
(* The ranges the router declares for the page of a dynamics request       *)
(* (app/api/routers.py): limit: Query(None, ge=1, le=10000).               *)
(***************************************************************************)
LIMIT_MAX == 10000

(***************************************************************************)
(* zoneinfo.ZoneInfo(tz_name): the zone's UTC offset, in seconds, at the   *)
(* instant t.  Europe/Moscow has a fixed offset; Europe/Berlin goes from   *)
(* +1h to +2h at 2023-03-26T01:00Z (a 23-hour local day); America/Asuncion *)
(* goes from -3h to -4h at 2023-03-26T03:00Z (a 25-hour local day).        *)
(***************************************************************************)
Zones == {"Europe/Moscow", "Europe/Berlin", "America/Asuncion"}

BerlinSwitch == (2 * SecPerDay + 1 * SecPerHour) * SubSec
AsuncionSwitch == (2 * SecPerDay + 3 * SecPerHour) * SubSec

ZoneOffsets(tz) ==
    CASE tz = "Europe/Moscow" -> {3 * SecPerHour}
      [] tz = "Europe/Berlin" -> {1 * SecPerHour, 2 * SecPerHour}
      [] tz = "America/Asuncion" -> {-3 * SecPerHour, -4 * SecPerHour}

UtcOffset(tz, t) ==
    CASE tz = "Europe/Moscow" -> 3 * SecPerHour
      [] tz = "Europe/Berlin" ->
            IF t < BerlinSwitch THEN 1 * SecPerHour ELSE 2 * SecPerHour
      [] tz = "America/Asuncion" ->
            IF t < AsuncionSwitch THEN -3 * SecPerHour ELSE -4 * SecPerHour

\* datetime.astimezone(tz): the wall reading of the instant t in the zone.
AsTimezone(t, tz) == t + UtcOffset(tz, t) * SubSec

\* datetime.replace(hour=, minute=, second=0, microsecond=0): same wall date.
ReplaceHM(wall, hour, minute) ==
    (wall \div DayTicks) * DayTicks
        + (hour * SecPerHour + minute * SecPerMinute) * SubSec

\* int(timedelta.total_seconds()): whole seconds, truncated toward zero.
TotalSecondsInt(delta) ==
    IF delta >= 0 THEN delta \div SubSec ELSE -((-delta) \div SubSec)

\* The comparison that decides whether today's cutoff is still ahead.
CutoffPassed_mut(local_now, cutoff) == local_now > cutoff
CutoffPassed(local_now, cutoff) == local_now >= cutoff

\* The cutoff the TTL is measured to, as a wall reading.  Two datetimes of
\* the same tzinfo compare and subtract by their wall readings.
CutoffCandidate(local_now, hour, minute) ==
    LET cutoff == ReplaceHM(local_now, hour, minute)
    IN  IF CutoffPassed(local_now, cutoff)
        THEN ReplaceHM(local_now + DayTicks, hour, minute)
        ELSE cutoff

seconds_until_next_cutoff(t, tz, hour, minute) ==
    LET local_now == AsTimezone(t, tz)
        cutoff == CutoffCandidate(local_now, hour, minute)
    IN  TotalSecondsInt(cutoff - local_now)


(***************************************************************************)
(* The cutoff clock on its own: one evaluation of the function on inputs   *)
(* drawn from every hour of 2023-03-25 and 2023-03-26 (UTC), the minutes   *)
(* around each cutoff minute, and every sub-second tick.                   *)
(***************************************************************************)
ClockDays == {1, 2}
ClockHours == 0 .. 23
ClockMinutes == {0, 10, 11, 29, 30, 58, 59}
ClockSeconds == {0, 59}
ClockCutoffs == {<<14, 11>>, <<0, 0>>, <<23, 59>>, <<2, 30>>, <<23, 30>>}

ClockNows ==
    { ((d * SecPerDay + h * SecPerHour + m * SecPerMinute + s) * SubSec) + u :
        d \in ClockDays, h \in ClockHours, m \in ClockMinutes,
        s \in ClockSeconds, u \in 0 .. (SubSec - 1) }

ClockIdle == [t |-> 0, tz |-> "Europe/Moscow", hour |-> 0, minute |-> 0,
              done |-> FALSE, out |-> 0]

ClockInit ==
    /\ \E t \in ClockNows, tz \in Zones, hm \in ClockCutoffs :
          clk = [t |-> t, tz |-> tz, hour |-> hm[1], minute |-> hm[2],
                 done |-> FALSE, out |-> 0]
    /\ kb = None
    /\ now = 0 /\ tzname = "Europe/Moscow" /\ cache = <<>> /\ relation = {}
    /\ flushes = {} /\ req = <<>>

ClockCompute ==
    /\ ~clk.done
    /\ clk' = [clk EXCEPT
                 !.done = TRUE,
                 !.out = seconds_until_next_cutoff(clk.t, clk.tz, clk.hour,
                                                   clk.minute)]

(***************************************************************************)
(* What the clock is measured against: the first instant after t at which  *)
(* the zone's wall clock reads hour:minute:00.  A wall reading w is shown  *)
(* at the instant w - offset when that offset is in force there.           *)
(***************************************************************************)
SetMin(S) == CHOOSE x \in S : \A y \in S : x <= y

CutoffInstants(tz, hour, minute) ==
    { c \in { (d * SecPerDay + hour * SecPerHour + minute * SecPerMinute - off)
                  * SubSec : d \in 0 .. 5, off \in ZoneOffsets(tz) } :
        AsTimezone(c, tz) % DayTicks
            = (hour * SecPerHour + minute * SecPerMinute) * SubSec }

NextCutoffInstant(t, tz, hour, minute) ==
    SetMin({ c \in CutoffInstants(tz, hour, minute) : c > t })

ClockLocalTod == AsTimezone(clk.t, clk.tz) % DayTicks
ClockCutoffTod == (clk.hour * SecPerHour + clk.minute * SecPerMinute) * SubSec

\* C5: for every instant (with any sub-second component), zone and
\* hour:minute, the result is strictly greater than 0 and at most 86400.
C5_TtlPositiveAtMostDay ==
    clk.done => (clk.out > 0 /\ clk.out <= SecPerDay)

\* C6: before hour:minute:00 on the local wall clock the result is the
\* whole-second floor of the distance to the same local day's cutoff; at or
\* after it, to the next local day's cutoff; exactly at the cutoff it is 86400.
C6_CandidateAndFloor ==
    clk.done =>
        /\ ClockLocalTod < ClockCutoffTod =>
               clk.out = (ClockCutoffTod - ClockLocalTod) \div SubSec
        /\ ClockLocalTod >= ClockCutoffTod =>
               clk.out = (DayTicks - (ClockLocalTod - ClockCutoffTod)) \div SubSec
        /\ ClockLocalTod = ClockCutoffTod => clk.out = SecPerDay

\* C6 witness: the function was evaluated exactly at the cutoff instant.
C6_Witness ==
    clk.done /\ ClockLocalTod = ClockCutoffTod /\ clk.out = SecPerDay

\* C7: in a zone with daylight-saving transitions the result is the whole
\* seconds that really elapse until the wall clock next reads hour:minute.
C7_RealElapsedSeconds ==
    clk.done =>
        clk.out = (NextCutoffInstant(clk.t, clk.tz, clk.hour, clk.minute)
                       - clk.t) \div SubSec

(***************************************************************************)
(* Text.  Python and the JSON encoder order strings by code point;         *)
(* StrOrder lists, in that order, the strings the model compares: the      *)
(* field names and the product identifiers.                                *)
(***************************************************************************)
StrOrder ==
    << "100", "101", "20", "a", "b", "count", "created_on", "date", "dates",
       "days", "delivery_basis_id", "delivery_basis_name",
       "delivery_type_id", "end_date", "exchange_product_id",
       "exchange_product_name", "id", "limit", "n", "offset", "oil_id",
       "start_date", "total", "updated_on", "volume" >>

StrRank(s) == CHOOSE i \in 1 .. Len(StrOrder) : StrOrder[i] = s

StrLess(a, b) == StrRank(a) < StrRank(b)

\* The names of the fields of the query, the response and a row.
K_days == "days"
K_start_date == "start_date"
K_end_date == "end_date"
K_oil_id == "oil_id"
K_delivery_type_id == "delivery_type_id"
K_delivery_basis_id == "delivery_basis_id"
K_limit == "limit"
K_offset == "offset"
K_dates == "dates"
K_id == "id"
K_exchange_product_id == "exchange_product_id"
K_exchange_product_name == "exchange_product_name"
K_delivery_basis_name == "delivery_basis_name"
K_volume == "volume"
K_total == "total"
K_count == "count"
K_date == "date"
K_created_on == "created_on"
K_updated_on == "updated_on"

(***************************************************************************)
(* datetime.date: <<year, month, day>>.                                    *)
(***************************************************************************)
\* date.toordinal(), up to a constant: the days since 1970-01-01.
ToOrdinal(d) ==
    LET y == IF d[2] <= 2 THEN d[1] - 1 ELSE d[1]
        era == y \div 400
        yoe == y - era * 400
        mp == IF d[2] > 2 THEN d[2] - 3 ELSE d[2] + 9
        doy == (153 * mp + 2) \div 5 + d[3] - 1
        doe == yoe * 365 + yoe \div 4 - yoe \div 100 + doy
    IN  era * 146097 + doe - 719468

\* date.isoformat(): YYYY-MM-DD, zero-padded.
Pad2(n) == IF n < 10 THEN "0" \o ToString(n) ELSE ToString(n)

Pad4(n) ==
    IF n < 10 THEN "000" \o ToString(n)
    ELSE IF n < 100 THEN "00" \o ToString(n)
    ELSE IF n < 1000 THEN "0" \o ToString(n)
    ELSE ToString(n)

isoformat(d) == Pad4(d[1]) \o "-" \o Pad2(d[2]) \o "-" \o Pad2(d[3])

(***************************************************************************)
(* Python values, tagged by their type, and the JSON text orjson writes.   *)
(* A dict is the sequence of its <<key, value>> items in insertion order.  *)
(***************************************************************************)
PyNone == <<"none">>
PyStr(s) == <<"str", s>>
PyInt(n) == <<"int", n>>
PyDate(d) == <<"date", d>>
PyList(items) == <<"list", items>>
PyDict(items) == <<"dict", items>>

\* dict[key] of a dict that holds the key.
DictGet(dict, key) ==
    LET i == CHOOSE j \in 1 .. Len(dict[2]) : dict[2][j][1] = key
    IN  dict[2][i][2]

\* The items of a dict in the order of their keys (insertion sort).
RECURSIVE InsertByKey(_, _)
InsertByKey(item, sorted) ==
    IF sorted = <<>> THEN <<item>>
    ELSE IF StrLess(item[1], sorted[1][1]) THEN <<item>> \o sorted
    ELSE <<sorted[1]>> \o InsertByKey(item, Tail(sorted))

RECURSIVE SortByKey(_)
SortByKey(items) ==
    IF items = <<>> THEN <<>>
    ELSE InsertByKey(items[1], SortByKey(Tail(items)))

\* orjson.OPT_SORT_KEYS: the order in which the items of a dict are written.
OPT_SORT_KEYS_mut(items) == items
OPT_SORT_KEYS(items) == SortByKey(items)

\* orjson.dumps(v), with option=OPT_SORT_KEYS when sort_keys: the JSON
\* text, as its tokens.  A date is written as the string of its isoformat.
RECURSIVE orjson_dumps(_, _)
orjson_dumps(v, sort_keys) ==
    CASE v[1] = "none" -> <<"null">>
      [] v[1] = "str" -> <<"string", v[2]>>
      [] v[1] = "int" -> <<"number", v[2]>>
      [] v[1] = "date" -> <<"string", isoformat(v[2])>>
      [] v[1] = "list" ->
            <<"array", [i \in 1 .. Len(v[2]) |-> orjson_dumps(v[2][i], sort_keys)]>>
      [] v[1] = "dict" ->
            LET items == IF sort_keys THEN OPT_SORT_KEYS(v[2]) ELSE v[2]
            IN  <<"object", [i \in 1 .. Len(items) |->
                    <<items[i][1], orjson_dumps(items[i][2], sort_keys)>>]>>

RECURSIVE orjson_loads_mut(_)
orjson_loads_mut(j) ==
    CASE j[1] = "null" -> PyNone
      [] j[1] = "string" -> PyStr(j[2])
      [] j[1] = "number" -> PyInt(j[2])
      [] j[1] = "array" ->
            PyList([i \in 1 .. Len(j[2]) |->
                      orjson_loads_mut(j[2][Len(j[2]) + 1 - i])])
      [] j[1] = "object" ->
            PyDict([i \in 1 .. Len(j[2]) |->
                      <<j[2][i][1], orjson_loads_mut(j[2][i][2])>>])

\* orjson.loads(raw).
RECURSIVE orjson_loads(_)
orjson_loads(j) ==
    CASE j[1] = "null" -> PyNone
      [] j[1] = "string" -> PyStr(j[2])
      [] j[1] = "number" -> PyInt(j[2])
      [] j[1] = "array" ->
            PyList([i \in 1 .. Len(j[2]) |-> orjson_loads(j[2][i])])
      [] j[1] = "object" ->
            PyDict([i \in 1 .. Len(j[2]) |->
                      <<j[2][i][1], orjson_loads(j[2][i][2])>>])

(***************************************************************************)
(* make_cache_key (app/core/caching.py).  SHA-256 is taken as a            *)
(* collision-free function of the bytes it digests; the key is the text    *)
(* before the digest and the digest (64 hex characters, so the split is    *)
(* unique).                                                                *)
(***************************************************************************)
sha256_hexdigest(payload) == <<"sha256", payload>>

make_cache_key(endpoint, version, params) ==
    [ prefix |-> "svc:" \o endpoint \o ":" \o version \o ":",
      hexdigest |-> sha256_hexdigest(orjson_dumps(params, TRUE)) ]


(***************************************************************************)
(* Rows of spimex_trading_results (app/db/models.py) and the public        *)
(* schemas (app/schemas/spimex.py).  A row is a record of its columns; a   *)
(* TradingResult or a TradingDatesResponse is kept as what model_dump()    *)
(* gives for it: a dict of typed values in field order.                    *)
(***************************************************************************)
PyDatetime(d, secs) == <<"datetime", d, secs>>
Invalid == <<"invalid">>

TradingResultFields ==
    << K_id, K_exchange_product_id, K_exchange_product_name, K_oil_id,
       K_delivery_basis_id, K_delivery_basis_name, K_delivery_type_id,
       K_volume, K_total, K_count, K_date, K_created_on, K_updated_on >>

SeedRow1 ==
    [ id |-> 1, exchange_product_id |-> "100", exchange_product_name |-> "DT",
      oil_id |-> "O1", delivery_basis_id |-> "BAS1",
      delivery_basis_name |-> "SPB", delivery_type_id |-> "DT1",
      volume |-> "10", total |-> "1000", count |-> "1",
      date |-> <<2023, 1, 10>>, created_on |-> PyNone, updated_on |-> PyNone ]

SeedRow2 ==
    [ id |-> 2, exchange_product_id |-> "101", exchange_product_name |-> "AI95",
      oil_id |-> "O2", delivery_basis_id |-> "BAS2",
      delivery_basis_name |-> "MSK", delivery_type_id |-> "DT2",
      volume |-> "20", total |-> "2000", count |-> "2",
      date |-> <<2023, 1, 11>>, created_on |-> PyNone, updated_on |-> PyNone ]

SeedRows == {SeedRow1, SeedRow2}

\* The attributes of a row as Python values, by field name.
RowAttr(row, f) ==
    CASE f = K_id -> PyInt(row.id)
      [] f = K_exchange_product_id -> PyStr(row.exchange_product_id)
      [] f = K_exchange_product_name -> PyStr(row.exchange_product_name)
      [] f = K_oil_id -> PyStr(row.oil_id)
      [] f = K_delivery_basis_id -> PyStr(row.delivery_basis_id)
      [] f = K_delivery_basis_name -> PyStr(row.delivery_basis_name)
      [] f = K_delivery_type_id -> PyStr(row.delivery_type_id)
      [] f = K_volume -> PyStr(row.volume)
      [] f = K_total -> PyStr(row.total)
      [] f = K_count -> PyStr(row.count)
      [] f = K_date -> PyDate(row.date)
      [] f = K_created_on -> row.created_on
      [] f = K_updated_on -> row.updated_on

\* Validation of a value for a field of type date: a date is kept, a
\* datetime with a zero time part gives its date, a YYYY-MM-DD string is
\* parsed (it is the date whose isoformat it is); anything else is a
\* validation error.
ParseYears == {2023}

ParseDate_mut(s) ==
    LET ds == { d \in ParseYears \X (1 .. 12) \X (1 .. 31) : isoformat(d) = s }
    IN  IF ds = {} THEN Invalid
        ELSE PyDate(<<(CHOOSE d \in ds : TRUE)[1], (CHOOSE d \in ds : TRUE)[2], 1>>)
ParseDate(s) ==
    LET ds == { d \in ParseYears \X (1 .. 12) \X (1 .. 31) : isoformat(d) = s }
    IN  IF ds = {} THEN Invalid ELSE PyDate(CHOOSE d \in ds : TRUE)

ValidateDate(v) ==
    CASE v[1] = "date" -> v
      [] v[1] = "datetime" -> IF v[3] = 0 THEN PyDate(v[2]) ELSE Invalid
      [] v[1] = "str" -> ParseDate(v[2])
      [] OTHER -> Invalid

ValidateField(f, v) ==
    CASE f = K_id -> IF v[1] = "int" THEN v ELSE Invalid
      [] f = K_date -> ValidateDate(v)
      [] f \in {K_created_on, K_updated_on} ->
            IF v = PyNone THEN v ELSE ValidateDate(v)
      [] OTHER -> IF v[1] = "str" THEN v ELSE Invalid

DictOk(d) == \A i \in 1 .. Len(d[2]) : d[2][i][2] # Invalid
ListOk(l) == \A i \in 1 .. Len(l[2]) : l[2][i] # Invalid /\
                 (l[2][i][1] = "dict" => DictOk(l[2][i]))

\* TradingResult.model_validate(row).model_dump(), from the row's attributes.
TradingResult_from_row(row) ==
    PyDict([i \in 1 .. Len(TradingResultFields) |->
              << TradingResultFields[i],
                 ValidateField(TradingResultFields[i],
                               RowAttr(row, TradingResultFields[i])) >>])

\* TradingResult(**item), from a dict that holds every field.
TradingResult_from_item(item) ==
    PyDict([i \in 1 .. Len(TradingResultFields) |->
              << TradingResultFields[i],
                 ValidateField(TradingResultFields[i],
                               DictGet(item, TradingResultFields[i])) >>])

\* [TradingResult(**item) for item in data]
TradingResults_from_items(data) ==
    PyList([i \in 1 .. Len(data[2]) |-> TradingResult_from_item(data[2][i])])

\* TradingDatesResponse(dates=dates).model_dump() and
\* TradingDatesResponse.model_validate(payload).
TradingDatesResponse_dump(dates) ==
    PyDict(<< <<K_dates, PyList([i \in 1 .. Len(dates) |-> PyDate(dates[i])])>> >>)

TradingDatesResponse_validate(payload) ==
    LET ds == DictGet(payload, K_dates)
    IN  PyDict(<< <<K_dates,
                    PyList([i \in 1 .. Len(ds[2]) |-> ValidateDate(ds[2][i])])>> >>)

\* DynamicsQuery.model_dump(): every field, in declaration order.
DynamicsQuery_model_dump(q) ==
    PyDict(<< <<K_start_date, PyDate(q.start_date)>>,
              <<K_end_date, PyDate(q.end_date)>>,
              <<K_oil_id, q.oil_id>>,
              <<K_delivery_type_id, q.delivery_type_id>>,
              <<K_delivery_basis_id, q.delivery_basis_id>>,
              <<K_limit, q.limit>>,
              <<K_offset, q.offset>> >>)

(***************************************************************************)
(* The repository (app/repositories/spimex_repo.py): the rows a SELECT     *)
(* returns from the relation as it is when the statement runs.             *)
(***************************************************************************)
\* The sequences that hold each element of S exactly once.
Perms(S) ==
    { seq \in [1 .. Cardinality(S) -> S] :
        \A i, j \in 1 .. Cardinality(S) : seq[i] = seq[j] => i = j }

\* Python truthiness of an optional argument: `if oil_id:`, `if limit:`.
Truthy(v) == v # PyNone /\ v # PyStr("") /\ v # PyInt(0)

DateLess(a, b) == ToOrdinal(a) < ToOrdinal(b)

FiltersHold(row, oil_id, delivery_type_id, delivery_basis_id) ==
    /\ Truthy(oil_id) => PyStr(row.oil_id) = oil_id
    /\ Truthy(delivery_type_id) => PyStr(row.delivery_type_id) = delivery_type_id
    /\ Truthy(delivery_basis_id) => PyStr(row.delivery_basis_id) = delivery_basis_id

Min(a, b) == IF a <= b THEN a ELSE b

\* stmt.offset(offset) then stmt.limit(limit), each only when truthy.
Window(seq, limit, offset) ==
    LET skip == IF Truthy(offset) THEN offset[2] ELSE 0
        rest == SubSeq(seq, Min(skip, Len(seq)) + 1, Len(seq))
    IN  IF Truthy(limit) THEN SubSeq(rest, 1, Min(limit[2], Len(rest)))
        ELSE rest

\* get_last_trading_dates: the distinct dates, latest first, at most `days`.
Repo_get_last_trading_dates_mut(rel, days) ==
    LET ds == { row.date : row \in rel }
        desc == CHOOSE seq \in Perms(ds) :
                    \A i, j \in 1 .. Cardinality(ds) :
                        i < j => DateLess(seq[j], seq[i])
    IN  SubSeq(desc, Len(desc) - Min(days, Len(desc)) + 1, Len(desc))
Repo_get_last_trading_dates(rel, days) ==
    LET ds == { row.date : row \in rel }
        desc == CHOOSE seq \in Perms(ds) :
                    \A i, j \in 1 .. Cardinality(ds) :
                        i < j => DateLess(seq[j], seq[i])
    IN  SubSeq(desc, 1, Min(days, Len(desc)))

\* get_last_trading_day: MAX(date), or None for an empty relation.
Repo_get_last_trading_day(rel) ==
    IF rel = {} THEN PyNone
    ELSE PyDate((CHOOSE row \in rel :
                    \A other \in rel : ~DateLess(row.date, other.date)).date)

DynamicsLess_mut(a, b) == DateLess(a.date, b.date)
DynamicsLess(a, b) ==
    \/ DateLess(a.date, b.date)
    \/ a.date = b.date /\ StrLess(a.exchange_product_id, b.exchange_product_id)

\* ORDER BY date ASC, exchange_product_id ASC: the sequences that hold each
\* row of S once and never put b before a when DynamicsLess(a, b).
DynamicsOrder(S) ==
    { seq \in Perms(S) :
        \A i, j \in 1 .. Cardinality(S) :
            i < j => ~DynamicsLess(seq[j], seq[i]) }

\* get_dynamics: every result the statement may give (the database orders
\* rows of equal date and product id as it likes).
Repo_get_dynamics(rel, start_date, end_date, oil_id, delivery_type_id, delivery_basis_id, limit, offset) ==
    LET match == { row \in rel :
                     /\ ~DateLess(row.date, start_date)
                     /\ ~DateLess(end_date, row.date)
                     /\ FiltersHold(row, oil_id, delivery_type_id,
                                    delivery_basis_id) }
    IN  { Window(seq, limit, offset) : seq \in DynamicsOrder(match) }

ProductLess(a, b) == StrLess(a.exchange_product_id, b.exchange_product_id)

\* ORDER BY exchange_product_id ASC.
ProductOrder(S) ==
    { seq \in Perms(S) :
        \A i, j \in 1 .. Cardinality(S) :
            i < j => ~ProductLess(seq[j], seq[i]) }

\* get_trading_results_for_last_day with the second statement reading the
\* latest day of the relation again.
Repo_rows_of_day_mut(rel, last, oil_id, delivery_type_id, delivery_basis_id) ==
    LET match == { row \in rel :
                     /\ \A other \in rel : ~DateLess(row.date, other.date)
                     /\ FiltersHold(row, oil_id, delivery_type_id,
                                    delivery_basis_id) }
    IN  ProductOrder(match)

\* get_trading_results_for_last_day, second statement: the rows of the day
\* `last` that the first statement returned.
Repo_rows_of_day(rel, last, oil_id, delivery_type_id, delivery_basis_id) ==
    LET match == { row \in rel :
                     /\ PyDate(row.date) = last
                     /\ FiltersHold(row, oil_id, delivery_type_id,
                                    delivery_basis_id) }
    IN  ProductOrder(match)

(***************************************************************************)
(* The cache adapter (app/core/caching.py) over the Redis database.  An    *)
(* entry holds the bytes and the instant it expires at; writtenAt and      *)
(* readAt record, for the properties only, when it was written and when    *)
(* the data in it was read from the relation.                              *)
(***************************************************************************)
Nil == <<"nil">>
EmptyCache == [k \in {} |-> Nil]

\* GET key: the bytes of an entry that has not expired.
redis_get(store, key, t) ==
    IF key \in DOMAIN store /\ t < store[key].expireAt
    THEN store[key].raw ELSE Nil

\* cache_get: None for an absent key, else the decoded value.
cache_get(store, key, t) ==
    LET raw == redis_get(store, key, t)
    IN  IF raw = Nil THEN PyNone ELSE orjson_loads(raw)

\* SET key value EX seconds is refused unless seconds is positive.
redis_set_accepts(ex) == ex > 0

redis_set_mut(store, key, raw, ex, t, readAt) ==
    [k \in {key} |->
        [ raw |-> raw, expireAt |-> t + ex * SubSec, writtenAt |-> t,
          readAt |-> readAt ]]
redis_set(store, key, raw, ex, t, readAt) ==
    [k \in DOMAIN store \cup {key} |->
        IF k = key
        THEN [ raw |-> raw, expireAt |-> t + ex * SubSec, writtenAt |-> t,
               readAt |-> readAt ]
        ELSE store[k]]

\* The ttl cache_set_until_cutoff passes: the clock at the time of the call.
cache_ttl(t, tz) ==
    seconds_until_next_cutoff(t, tz, CACHE_RESET_HOUR, CACHE_RESET_MINUTE)

\* cache_set_until_cutoff: the database after the call.
cache_set_until_cutoff(store, key, value, t, tz, readAt) ==
    redis_set(store, key, orjson_dumps(value, FALSE), cache_ttl(t, tz), t,
              readAt)

\* Redis drops the entries whose expiry has passed.
Unexpired(store, t) ==
    [k \in { x \in DOMAIN store : t < store[x].expireAt } |-> store[k]]

(***************************************************************************)
(* The service (app/services/spimex_service.py).  A request is one call of *)
(* a service method; pc is the await it stands at, trace the cache and     *)
(* repository operations it has made so far, fault the operation of it     *)
(* that the cache or the database failed, if any.                          *)
(***************************************************************************)
Requests == 1 .. NumReq

EP_last_trading_dates == "last_trading_dates"
EP_dynamics == "dynamics"
EP_trading_results_last_day == "trading_results_last_day"
VERSION == "v1"

NoKey == [prefix |-> "", hexdigest |-> Nil]

IdleReq ==
    [ pc |-> "idle", op |-> "", args |-> PyNone, key |-> NoKey,
      trace |-> <<>>, stash |-> PyNone, readAt |-> -1,
      outcome |-> "", result |-> PyNone, fault |-> "" ]

\* A request may start when every request before it has (requests are
\* interchangeable, so this loses no behaviour).
CanStart(r) ==
    /\ req[r].pc = "idle"
    /\ r > 1 => req[r - 1].pc # "idle"

\* raise ValueError(...) before the first await.
Rejected(op, params) ==
    [IdleReq EXCEPT !.pc = "failed", !.op = op, !.args = params,
                    !.outcome = "ValueError"]

\* key = make_cache_key(...); the request stands at `await cache_get`.
Accepted(op, params, key) ==
    [IdleReq EXCEPT !.pc = "cache_get", !.op = op, !.args = params,
                    !.key = key]

\* if days <= 0 or days > settings.MAX_LAST_DATES
days_rejected_mut(days) == days < 0 \/ days > MAX_LAST_DATES
days_rejected_mut2(days) == days <= 0 \/ days >= MAX_LAST_DATES
days_rejected(days) == days <= 0 \/ days > MAX_LAST_DATES

\* if q.start_date > q.end_date
start_after_end(q) == DateLess(q.end_date, q.start_date)

\* if (q.end_date - q.start_date).days > settings.MAX_DYNAMICS_SPAN_DAYS
period_too_long_mut(q) ==
    ToOrdinal(q.end_date) - ToOrdinal(q.start_date) >= MAX_DYNAMICS_SPAN_DAYS
period_too_long(q) ==
    ToOrdinal(q.end_date) - ToOrdinal(q.start_date) > MAX_DYNAMICS_SPAN_DAYS

\* The params each method passes to make_cache_key.
Params_last_trading_dates(days) == PyDict(<< <<K_days, PyInt(days)>> >>)

Params_dynamics_mut(q) ==
    PyDict(SubSeq(DynamicsQuery_model_dump(q)[2], 1, 5))
Params_dynamics(q) == DynamicsQuery_model_dump(q)

Params_trading_results(oil_id, delivery_type_id, delivery_basis_id) ==
    PyDict(<< <<K_oil_id, oil_id>>,
              <<K_delivery_type_id, delivery_type_id>>,
              <<K_delivery_basis_id, delivery_basis_id>> >>)

\* The key each method builds.
Key_last_trading_dates(days) ==
    make_cache_key(EP_last_trading_dates, VERSION,
                   Params_last_trading_dates(days))

Key_dynamics(q) == make_cache_key(EP_dynamics, VERSION, Params_dynamics(q))

Key_trading_results(oil_id, delivery_type_id, delivery_basis_id) ==
    make_cache_key(EP_trading_results_last_day, VERSION,
                   Params_trading_results(oil_id, delivery_type_id,
                                          delivery_basis_id))

Svc_get_last_trading_dates(r, days) ==
    /\ CanStart(r)
    /\ req' = [req EXCEPT ![r] =
          IF days_rejected(days)
          THEN Rejected("last_trading_dates", Params_last_trading_dates(days))
          ELSE Accepted("last_trading_dates", Params_last_trading_dates(days),
                        Key_last_trading_dates(days))]
    /\ UNCHANGED <<now, tzname, cache, relation, flushes, clk, kb>>

Svc_get_dynamics(r, q) ==
    /\ CanStart(r)
    /\ req' = [req EXCEPT ![r] =
          IF start_after_end(q) \/ period_too_long(q)
          THEN Rejected("dynamics", DynamicsQuery_model_dump(q))
          ELSE Accepted("dynamics", DynamicsQuery_model_dump(q),
                        Key_dynamics(q))]
    /\ UNCHANGED <<now, tzname, cache, relation, flushes, clk, kb>>

Svc_get_trading_results(r, oil_id, delivery_type_id, delivery_basis_id) ==
    /\ CanStart(r)
    /\ req' = [req EXCEPT ![r] =
          Accepted("trading_results",
                   Params_trading_results(oil_id, delivery_type_id,
                                          delivery_basis_id),
                   Key_trading_results(oil_id, delivery_type_id,
                                       delivery_basis_id))]
    /\ UNCHANGED <<now, tzname, cache, relation, flushes, clk, kb>>

\* if cached is not None
cache_hit_mut(cached) == FALSE
cache_hit_mut2(cached) == cached # PyNone /\ cached # PyList(<<>>)
cache_hit(cached) == cached # PyNone

\* The response built from a payload: from the decoded cache entry on a
\* hit, from the dumped models on a miss.
Response(op, payload) ==
    IF op = "last_trading_dates"
    THEN TradingDatesResponse_validate(payload)
    ELSE TradingResults_from_items(payload)

ResponseOk(op, res) ==
    IF op = "last_trading_dates" THEN ListOk(DictGet(res, K_dates))
    ELSE ListOk(res)

CacheGet_mut(r) ==
    /\ req[r].pc = "cache_get"
    /\ LET cached == cache_get(cache, req[r].key, now)
           seen == [req[r] EXCEPT !.trace = Append(@, "get")]
       IN  /\ req' = [req EXCEPT ![r] =
                 IF cache_hit(cached)
                 THEN [seen EXCEPT !.pc = "done", !.outcome = "hit",
                                   !.result = Response(req[r].op, cached)]
                 ELSE [seen EXCEPT !.pc = "repo"]]
           /\ cache' = IF cache_hit(cached)
                       THEN [cache EXCEPT ![req[r].key].expireAt = @ + DayTicks]
                       ELSE cache
    /\ UNCHANGED <<now, tzname, relation, flushes, clk, kb>>

\* cached = await cache_get(self.redis, key), and the return on a hit.
CacheGet(r) ==
    /\ req[r].pc = "cache_get"
    /\ LET cached == cache_get(cache, req[r].key, now)
           seen == [req[r] EXCEPT !.trace = Append(@, "get")]
       IN  req' = [req EXCEPT ![r] =
              IF cache_hit(cached)
              THEN LET res == Response(req[r].op, cached)
                   IN  IF ResponseOk(req[r].op, res)
                       THEN [seen EXCEPT !.pc = "done", !.outcome = "hit",
                                         !.result = res]
                       ELSE [seen EXCEPT !.pc = "failed",
                                         !.outcome = "ValidationError"]
              ELSE [seen EXCEPT !.pc = "repo"]]
    /\ UNCHANGED <<now, tzname, cache, relation, flushes, clk, kb>>

RowsIn(seq) == { seq[i] : i \in 1 .. Len(seq) }

RepoLastDates_mut(r) ==
    /\ req[r].pc = "repo"
    /\ req[r].op = "last_trading_dates"
    /\ LET days == DictGet(req[r].args, K_days)[2]
           dates == Repo_get_last_trading_dates(relation, days)
       IN  /\ req' = [req EXCEPT ![r] =
                 [@ EXCEPT !.pc = "cache_set", !.trace = Append(@, "repo"),
                           !.readAt = now,
                           !.stash = TradingDatesResponse_dump(dates)]]
           /\ relation' = { row \in relation : row.date \notin RowsIn(dates) }
    /\ UNCHANGED <<now, tzname, cache, flushes, clk, kb>>

\* dates = await self.repo.get_last_trading_dates(days)
RepoLastDates(r) ==
    /\ req[r].pc = "repo"
    /\ req[r].op = "last_trading_dates"
    /\ LET days == DictGet(req[r].args, K_days)[2]
           dates == Repo_get_last_trading_dates(relation, days)
       IN  req' = [req EXCEPT ![r] =
              [@ EXCEPT !.pc = "cache_set", !.trace = Append(@, "repo"),
                        !.readAt = now,
                        !.stash = TradingDatesResponse_dump(dates)]]
    /\ UNCHANGED <<now, tzname, cache, relation, flushes, clk, kb>>

\* rows = await self.repo.get_dynamics(...); data = [model_validate(r)...]
RepoDynamics(r) ==
    /\ req[r].pc = "repo"
    /\ req[r].op = "dynamics"
    /\ LET q == req[r].args
       IN  \E rows \in Repo_get_dynamics(relation,
                           DictGet(q, K_start_date)[2], DictGet(q, K_end_date)[2],
                           DictGet(q, K_oil_id), DictGet(q, K_delivery_type_id),
                           DictGet(q, K_delivery_basis_id),
                           DictGet(q, K_limit), DictGet(q, K_offset)) :
             LET data == PyList([i \in 1 .. Len(rows) |->
                                    TradingResult_from_row(rows[i])])
             IN  req' = [req EXCEPT ![r] =
                    IF ListOk(data)
                    THEN [@ EXCEPT !.pc = "cache_set",
                                   !.trace = Append(@, "repo"),
                                   !.readAt = now, !.stash = data]
                    ELSE [@ EXCEPT !.pc = "failed",
                                   !.trace = Append(@, "repo"),
                                   !.outcome = "ValidationError"]]
    /\ UNCHANGED <<now, tzname, cache, relation, flushes, clk, kb>>

\* get_trading_results_for_last_day, first statement:
\* last = await self.get_last_trading_day(); if not last: return []
RepoLastDay(r) ==
    /\ req[r].pc = "repo"
    /\ req[r].op = "trading_results"
    /\ LET last == Repo_get_last_trading_day(relation)
       IN  req' = [req EXCEPT ![r] =
              IF last = PyNone
              THEN [@ EXCEPT !.pc = "cache_set", !.trace = Append(@, "repo"),
                             !.readAt = now, !.stash = PyList(<<>>)]
              ELSE [@ EXCEPT !.pc = "repo_day", !.trace = Append(@, "repo"),
                             !.readAt = now, !.stash = last]]
    /\ UNCHANGED <<now, tzname, cache, relation, flushes, clk, kb>>

\* get_trading_results_for_last_day, second statement, and the dump.
RepoRowsOfDay(r) ==
    /\ req[r].pc = "repo_day"
    /\ LET p == req[r].args
       IN  \E rows \in Repo_rows_of_day(relation, req[r].stash,
                           DictGet(p, K_oil_id), DictGet(p, K_delivery_type_id),
                           DictGet(p, K_delivery_basis_id)) :
             LET data == PyList([i \in 1 .. Len(rows) |->
                                    TradingResult_from_row(rows[i])])
             IN  req' = [req EXCEPT ![r] =
                    IF ListOk(data)
                    THEN [@ EXCEPT !.pc = "cache_set", !.stash = data]
                    ELSE [@ EXCEPT !.pc = "failed", !.stash = PyNone,
                                   !.readAt = -1,
                                   !.outcome = "ValidationError"]]
    /\ UNCHANGED <<now, tzname, cache, relation, flushes, clk, kb>>

\* await cache_set_until_cutoff(self.redis, key, payload), and the return.
CacheSet(r) ==
    /\ req[r].pc = "cache_set"
    /\ IF redis_set_accepts(cache_ttl(now, tzname))
       THEN /\ cache' = cache_set_until_cutoff(cache, req[r].key, req[r].stash,
                                               now, tzname, req[r].readAt)
            /\ req' = [req EXCEPT ![r] =
                  [@ EXCEPT !.pc = "done", !.trace = Append(@, "set"),
                            !.stash = PyNone, !.readAt = -1,
                            !.outcome = "miss",
                            !.result = Response(req[r].op, req[r].stash)]]
       ELSE /\ cache' = cache
            /\ req' = [req EXCEPT ![r] =
                  [@ EXCEPT !.pc = "failed", !.trace = Append(@, "set"),
                            !.stash = PyNone, !.readAt = -1,
                            !.outcome = "ResponseError"]]
    /\ UNCHANGED <<now, tzname, relation, flushes, clk, kb>>

(***************************************************************************)
(* The environment: time passes, and the scheduler of app/main.py runs     *)
(* flush_all when the wall clock of the configured zone reads the cutoff.  *)
(***************************************************************************)
StartInstant == (1 * SecPerDay + 23 * SecPerHour + 30 * SecPerMinute) * SubSec

\* The instant of the first cutoff after the start, in the configured zone.
SysCutoff(tz) ==
    NextCutoffInstant(StartInstant, tz, CACHE_RESET_HOUR, CACHE_RESET_MINUTE)

\* The instants the model visits: the start (2023-03-25T23:30Z), the last
\* tick before the cutoff, the cutoff, and half an hour after it.
TimePoints(tz) ==
    { StartInstant, SysCutoff(tz) - 1, SysCutoff(tz),
      SysCutoff(tz) + 30 * SecPerMinute * SubSec }

Tick ==
    /\ \E t \in TimePoints(tzname) :
          /\ t > now
          /\ \A u \in TimePoints(tzname) : u > now => t <= u
          /\ now' = t
          /\ cache' = Unexpired(cache, t)
    /\ UNCHANGED <<tzname, relation, flushes, req, clk, kb>>

\* The cron job of the scheduler: flush_all(redis_client) -> FLUSHDB, once
\* at each instant the trigger names.
flush_all_mut ==
    /\ now \in CutoffInstants(tzname, CACHE_RESET_HOUR, CACHE_RESET_MINUTE)
    /\ now \notin flushes
    /\ cache' = [k \in { x \in DOMAIN cache : x.prefix = "session:" } |-> cache[k]]
    /\ flushes' = flushes \cup {now}
    /\ UNCHANGED <<now, tzname, relation, req, clk, kb>>
flush_all ==
    /\ now \in CutoffInstants(tzname, CACHE_RESET_HOUR, CACHE_RESET_MINUTE)
    /\ now \notin flushes
    /\ cache' = EmptyCache
    /\ flushes' = flushes \cup {now}
    /\ UNCHANGED <<now, tzname, relation, req, clk, kb>>

(***************************************************************************)
(* The inputs of the requests.                                             *)
(***************************************************************************)
SysZones == {"Europe/Moscow", "Europe/Berlin"}

DaysInputs == {0, 2, MAX_LAST_DATES + 1}

Q_base ==
    [ start_date |-> <<2023, 1, 10>>, end_date |-> <<2023, 1, 11>>,
      oil_id |-> PyNone, delivery_type_id |-> PyNone,
      delivery_basis_id |-> PyNone, limit |-> PyNone, offset |-> PyNone ]

DynamicsInputs ==
    { Q_base,
      [Q_base EXCEPT !.limit = PyInt(1), !.offset = PyInt(1)],
      [Q_base EXCEPT !.start_date = <<2023, 1, 11>>, !.end_date = <<2023, 1, 10>>],
      [Q_base EXCEPT !.start_date = <<2020, 1, 1>>, !.end_date = <<2021, 1, 2>>] }

FilterInputs == { <<PyNone, PyNone, PyNone>>, <<PyStr("O2"), PyNone, PyNone>> }

Init ==
    /\ now = StartInstant
    /\ tzname \in SysZones
    /\ cache = EmptyCache
    /\ relation = SeedRows
    /\ flushes = {}
    /\ req = [r \in Requests |-> IdleReq]
    /\ clk = ClockIdle
    /\ kb = None

Next ==
    \/ \E r \in Requests, days \in DaysInputs : Svc_get_last_trading_dates(r, days)
    \/ \E r \in Requests, q \in DynamicsInputs : Svc_get_dynamics(r, q)
    \/ \E r \in Requests, f \in FilterInputs :
          Svc_get_trading_results(r, f[1], f[2], f[3])
    \/ \E r \in Requests : CacheGet(r)
    \/ \E r \in Requests : RepoLastDates(r)
    \/ \E r \in Requests : RepoDynamics(r)
    \/ \E r \in Requests : RepoLastDay(r)
    \/ \E r \in Requests : RepoRowsOfDay(r)
    \/ \E r \in Requests : CacheSet(r)
    \/ Tick
    \/ flush_all

Spec == Init /\ [][Next]_vars

(***************************************************************************)
(* The key builder on its own: make_cache_key on two mappings, each a dict *)
(* with up to three keys in any insertion order, one of them holding a     *)
(* nested dict.                                                            *)
(***************************************************************************)
KeyItemsA == { <<"a", v>> : v \in {PyInt(1), PyInt(2)} }
KeyItemsB == { <<"b", v>> : v \in {PyInt(2), PyNone} }
KeyInnerDicts ==
    UNION { Perms({ <<"a", PyInt(1)>>, ib }) : ib \in KeyItemsB }
KeyItemsN == { <<"n", PyDict(d)>> : d \in KeyInnerDicts }

KeyDicts ==
    LET pick == { sel \in SUBSET (KeyItemsA \cup KeyItemsB \cup KeyItemsN) :
                    /\ sel # {}
                    /\ \A x, y \in sel : x[1] = y[1] => x = y }
    IN  { PyDict(seq) : seq \in UNION { Perms(sel) : sel \in pick } }

KeyEndpoints == { "e", "dynamics" }
KeyVersion == "v1"

KeyInit ==
    /\ \E p1 \in KeyDicts, p2 \in KeyDicts, e \in KeyEndpoints :
          kb = [ endpoint |-> e, version |-> KeyVersion, p1 |-> p1, p2 |-> p2,
                 done |-> FALSE, k1 |-> None, k2 |-> None ]
    /\ clk = ClockIdle
    /\ now = 0 /\ tzname = "Europe/Moscow" /\ cache = <<>> /\ relation = {}
    /\ flushes = {} /\ req = <<>>

KeyBuild ==
    /\ ~kb.done
    /\ kb' = [kb EXCEPT
                !.done = TRUE,
                !.k1 = make_cache_key(kb.endpoint, kb.version, kb.p1),
                !.k2 = make_cache_key(kb.endpoint, kb.version, kb.p2)]

\* A Python value as the mapping it denotes: a dict is the function from
\* its keys to its values, whatever the order its items were inserted in.
RECURSIVE AsMapping(_)
AsMapping(v) ==
    IF v[1] = "dict"
    THEN <<"map", [k \in { v[2][i][1] : i \in 1 .. Len(v[2]) } |->
                      AsMapping(DictGet(v, k))]>>
    ELSE IF v[1] = "list"
    THEN <<"list", [i \in 1 .. Len(v[2]) |-> AsMapping(v[2][i])]>>
    ELSE v

\* Every object of a JSON text has its keys in strictly ascending order.
RECURSIVE KeysSorted(_)
KeysSorted(j) ==
    IF j[1] = "object"
    THEN /\ \A i \in 1 .. (Len(j[2]) - 1) : StrLess(j[2][i][1], j[2][i + 1][1])
         /\ \A i \in 1 .. Len(j[2]) : KeysSorted(j[2][i][2])
    ELSE IF j[1] = "array"
    THEN \A i \in 1 .. Len(j[2]) : KeysSorted(j[2][i])
    ELSE TRUE

\* C9: two mappings with the same key/value pairs, inserted in different
\* orders at any nesting level, get the same key; the key is
\* svc:{endpoint}:{version}: followed by the digest of an encoding of the
\* mapping whose keys are sorted at every level.
C9_KeyOrderIndependent ==
    kb.done =>
        /\ AsMapping(kb.p1) = AsMapping(kb.p2) => kb.k1 = kb.k2
        /\ kb.k1.prefix = "svc:" \o kb.endpoint \o ":" \o kb.version \o ":"
        /\ kb.k1.hexdigest[1] = "sha256"
        /\ KeysSorted(kb.k1.hexdigest[2])
        /\ AsMapping(orjson_loads(kb.k1.hexdigest[2])) = AsMapping(kb.p1)

\* C9 witness: the same mapping inserted in two orders that differ at the
\* top level and inside the nested dict, and one key for both.
C9_Witness ==
    /\ kb.done
    /\ Len(kb.p1[2]) = 3
    /\ Len(kb.p2[2]) = 3
    /\ kb.p1[2][1][1] # kb.p2[2][1][1]
    /\ DictGet(kb.p1, "n") # DictGet(kb.p2, "n")
    /\ AsMapping(kb.p1) = AsMapping(kb.p2)
    /\ kb.k1 = kb.k2

(***************************************************************************)
(* Properties of the request pipeline.                                     *)
(***************************************************************************)
\* An entry that a GET at instant t finds under the key.
Readable(store, key, t) == key \in DOMAIN store /\ t < store[key].expireAt

\* The bytes the service stores for a result: the JSON text of its dump.
Serialized(result) == orjson_dumps(result, FALSE)

IsPrefix(s, t) == Len(s) <= Len(t) /\ s = SubSeq(t, 1, Len(s))

\* C1: in each of the three operations, a lookup that finds an entry under
\* the request's key ends the request at once: the result is the one
\* rebuilt from that entry (its serialized form is the entry's bytes), the
\* cache is left as it was, and the only operation the request has made
\* is the lookup (no repository call, no cache write).
C1_HitServedFromEntry ==
    [][\A r \in Requests :
          /\ ( /\ req[r].pc = "cache_get"
               /\ req'[r] # req[r]
               /\ Readable(cache, req[r].key, now) ) =>
                  /\ req'[r].pc = "done"
                  /\ req'[r].outcome = "hit"
                  /\ Serialized(req'[r].result) = cache[req[r].key].raw
                  /\ cache' = cache
          /\ req'[r].outcome = "hit" =>
                  /\ req'[r].pc = "done"
                  /\ req'[r].trace = <<"get">>]_vars

\* C1 witness: a dynamics request answered from an entry that holds rows.
C1_Witness ==
    \E r \in Requests :
        /\ req[r].op = "dynamics"
        /\ req[r].outcome = "hit"
        /\ req[r].trace = <<"get">>
        /\ Len(req[r].result[2]) > 0

\* C2: in each of the three operations, a request whose lookup finds no
\* entry goes on to the repository; its operations are, in this order, the
\* lookup, one repository operation and one store; it ends by returning;
\* and the store that precedes the return puts under the key that was
\* looked up, and under no other key, the serialized form of the result
\* that is returned.
C2_MissPipeline ==
    [][\A r \in Requests :
          /\ ( /\ req[r].pc = "cache_get"
               /\ req'[r] # req[r]
               /\ ~Readable(cache, req[r].key, now) ) =>
                  /\ req'[r].pc = "repo"
                  /\ req'[r].trace = <<"get">>
          /\ IsPrefix(req'[r].trace, <<"get", "repo", "set">>)
          /\ ( /\ req'[r].pc \in {"done", "failed"}
               /\ Len(req'[r].trace) > 1 ) =>
                  /\ req'[r].pc = "done"
                  /\ req'[r].outcome = "miss"
                  /\ req'[r].trace = <<"get", "repo", "set">>
          /\ (req[r].pc = "cache_set" /\ req'[r].pc = "done") =>
                  /\ DOMAIN cache' = DOMAIN cache \cup {req[r].key}
                  /\ cache'[req[r].key].raw = Serialized(req'[r].result)
                  /\ \A k \in DOMAIN cache \ {req[r].key} :
                        cache'[k] = cache[k]]_vars

\* The part of C2 that is about the order of the operations and the stored
\* form, for the requests whose store Redis accepts.
C2_OrderAndStoredForm ==
    [][\A r \in Requests :
          /\ ( /\ req[r].pc = "cache_get"
               /\ req'[r] # req[r]
               /\ ~Readable(cache, req[r].key, now) ) =>
                  /\ req'[r].pc = "repo"
                  /\ req'[r].trace = <<"get">>
          /\ IsPrefix(req'[r].trace, <<"get", "repo", "set">>)
          /\ req'[r].outcome = "miss" =>
                  /\ req'[r].pc = "done"
                  /\ req'[r].trace = <<"get", "repo", "set">>
          /\ (req[r].pc = "cache_set" /\ req'[r].pc = "done") =>
                  /\ DOMAIN cache' = DOMAIN cache \cup {req[r].key}
                  /\ cache'[req[r].key].raw = Serialized(req'[r].result)
                  /\ \A k \in DOMAIN cache \ {req[r].key} :
                        cache'[k] = cache[k]]_vars

\* What the service accepts, as the interface states it: days in
\* 1..MAX_LAST_DATES; a period that does not end before it starts and is
\* at most MAX_DYNAMICS_SPAN_DAYS days long.
ArgsValid(r) ==
    CASE req[r].op = "last_trading_dates" ->
            DictGet(req[r].args, K_days)[2] \in 1 .. MAX_LAST_DATES
      [] req[r].op = "dynamics" ->
            LET s == ToOrdinal(DictGet(req[r].args, K_start_date)[2])
                e == ToOrdinal(DictGet(req[r].args, K_end_date)[2])
            IN  e - s \in 0 .. MAX_DYNAMICS_SPAN_DAYS
      [] OTHER -> TRUE

\* C3: a get_last_trading_dates or get_dynamics request that fails
\* validation ends with the validation error when it starts, before any
\* cache lookup, cache write or repository call; and an entry is only ever
\* written into the cache by a request that passed validation.
C3_ValidationFirst ==
    [][/\ \A r \in Requests :
             (req[r].pc = "idle" /\ req'[r].pc # "idle" /\ ~ArgsValid(r)') =>
                  /\ req'[r].pc = "failed"
                  /\ req'[r].outcome = "ValueError"
                  /\ req'[r].trace = <<>>
                  /\ cache' = cache
       /\ \A r \in Requests :
             req'[r].outcome = "ValueError" => req'[r].trace = <<>>
       /\ \A k \in DOMAIN cache' :
             (k \notin DOMAIN cache \/ cache'[k] # cache[k]) =>
                 \E r \in Requests :
                     /\ req[r].pc = "cache_set"
                     /\ req[r].key = k
                     /\ ArgsValid(r)]_vars

\* C3 witness: a dynamics request refused for its period, having made no
\* operation, next to a cache that holds an entry of another request.
C3_Witness ==
    \E r \in Requests :
        /\ req[r].op = "dynamics"
        /\ req[r].outcome = "ValueError"
        /\ req[r].trace = <<>>
        /\ ~ArgsValid(r)
        /\ cache # EmptyCache

\* The flush of a cutoff has run: flush_all ran at or after the cutoff c.
Flushed(c) == \E f \in flushes : c <= f

\* C4: once a cutoff has passed and flush_all has run for it, no lookup is
\* answered from an entry whose data was read from the relation before
\* that cutoff.
C4_NoStaleAfterFlush ==
    [][\A r \in Requests :
          (req[r].pc = "cache_get" /\ req'[r].outcome = "hit") =>
              ~\E c \in CutoffInstants(tzname, CACHE_RESET_HOUR,
                                       CACHE_RESET_MINUTE) :
                  /\ c <= now
                  /\ Flushed(c)
                  /\ cache[req[r].key].readAt < c]_vars

\* The expiry of every entry is the clock's value at the time of the write.
C8_ExpiryIsClockAtWrite ==
    \A k \in DOMAIN cache :
        /\ cache[k].expireAt > cache[k].writtenAt
        /\ cache[k].expireAt =
              cache[k].writtenAt
                + SubSec * seconds_until_next_cutoff(cache[k].writtenAt, tzname,
                              CACHE_RESET_HOUR, CACHE_RESET_MINUTE)

\* C8: every entry has an expiry, the clock's value at the time of the
\* write added to that time, and so it expires no later than the first
\* cutoff instant after the write.
C8_ExpiresByNextCutoff ==
    \A k \in DOMAIN cache :
        /\ cache[k].expireAt > cache[k].writtenAt
        /\ cache[k].expireAt =
              cache[k].writtenAt
                + SubSec * seconds_until_next_cutoff(cache[k].writtenAt, tzname,
                              CACHE_RESET_HOUR, CACHE_RESET_MINUTE)
        /\ cache[k].expireAt <=
              NextCutoffInstant(cache[k].writtenAt, tzname,
                                CACHE_RESET_HOUR, CACHE_RESET_MINUTE)

(***************************************************************************)
(* The keys of the service on their own: two requests that passed          *)
(* validation, and the key each method builds for them.                    *)
(***************************************************************************)
ReqDates == { <<2023, 1, 10>>, <<2023, 1, 11>> }
ReqFilter == { PyNone, PyStr("O1") }

ReqLastDates == { [op |-> "last_trading_dates", days |-> d] : d \in {1, 2} }

ReqDynamics ==
    { [op |-> "dynamics", q |-> q] :
        q \in { x \in [ start_date : ReqDates, end_date : ReqDates,
                        oil_id : ReqFilter, delivery_type_id : ReqFilter,
                        delivery_basis_id : ReqFilter,
                        limit : {PyNone, PyInt(1)},
                        offset : {PyNone, PyInt(1)} ] :
                  ~start_after_end(x) /\ ~period_too_long(x) } }

ReqTrading ==
    { [op |-> "trading_results", oil_id |-> o, delivery_type_id |-> t,
       delivery_basis_id |-> b] :
        o \in ReqFilter \cup {PyStr("")}, t \in ReqFilter, b \in ReqFilter }

ReqUniverse == ReqLastDates \cup ReqDynamics \cup ReqTrading

\* The key the service method of the request builds.
ServiceKey(a) ==
    CASE a.op = "last_trading_dates" -> Key_last_trading_dates(a.days)
      [] a.op = "dynamics" -> Key_dynamics(a.q)
      [] a.op = "trading_results" ->
            Key_trading_results(a.oil_id, a.delivery_type_id,
                                a.delivery_basis_id)

ReqKeyInit ==
    /\ \E a \in ReqUniverse, b \in ReqUniverse :
          kb = [ a |-> a, b |-> b, done |-> FALSE, k1 |-> None, k2 |-> None ]
    /\ clk = ClockIdle
    /\ now = 0 /\ tzname = "Europe/Moscow" /\ cache = <<>> /\ relation = {}
    /\ flushes = {} /\ req = <<>>

ReqKeyBuild ==
    /\ ~kb.done
    /\ kb' = [kb EXCEPT !.done = TRUE, !.k1 = ServiceKey(kb.a),
                        !.k2 = ServiceKey(kb.b)]

\* The same operation with field-by-field equal parameters.
SameRequest(a, b) ==
    /\ a.op = b.op
    /\ CASE a.op = "last_trading_dates" -> a.days = b.days
         [] a.op = "dynamics" ->
               /\ a.q.start_date = b.q.start_date
               /\ a.q.end_date = b.q.end_date
               /\ a.q.oil_id = b.q.oil_id
               /\ a.q.delivery_type_id = b.q.delivery_type_id
               /\ a.q.delivery_basis_id = b.q.delivery_basis_id
               /\ a.q.limit = b.q.limit
               /\ a.q.offset = b.q.offset
         [] a.op = "trading_results" ->
               /\ a.oil_id = b.oil_id
               /\ a.delivery_type_id = b.delivery_type_id
               /\ a.delivery_basis_id = b.delivery_basis_id

\* C10: two requests get the same key exactly when they are the same
\* operation with field-by-field equal parameters (days; the seven fields
\* of the query; the three filters), an absent field counting as null.
C10_SameKeyIffSameRequest ==
    kb.done => (kb.k1 = kb.k2 <=> SameRequest(kb.a, kb.b))

\* C10 witness: two dynamics requests that differ in the page only, and
\* two keys.
C10_Witness ==
    /\ kb.done
    /\ kb.a.op = "dynamics"
    /\ kb.b.op = "dynamics"
    /\ [kb.a.q EXCEPT !.offset = PyNone] = [kb.b.q EXCEPT !.offset = PyNone]
    /\ kb.a.q.offset # kb.b.q.offset
    /\ kb.k1 # kb.k2

(***************************************************************************)
(* Calls of the service by any caller.  The service methods take what the  *)
(* caller built: DynamicsQuery declares limit and offset as Optional[int], *)
(* with no range, so a query object may carry any integer in them.         *)
(***************************************************************************)
UncheckedInputs ==
    { [Q_base EXCEPT !.limit = PyInt(LIMIT_MAX + 1)],
      [Q_base EXCEPT !.limit = PyInt(0)] }

CallsInit ==
    /\ now = StartInstant
    /\ tzname = "Europe/Moscow"
    /\ cache = EmptyCache
    /\ relation = SeedRows
    /\ flushes = {}
    /\ req = [r \in Requests |-> IdleReq]
    /\ clk = ClockIdle
    /\ kb = None

CallsNext ==
    \/ \E r \in Requests, days \in DaysInputs : Svc_get_last_trading_dates(r, days)
    \/ \E r \in Requests, q \in DynamicsInputs \cup UncheckedInputs :
          Svc_get_dynamics(r, q)
    \/ \E r \in Requests, f \in FilterInputs :
          Svc_get_trading_results(r, f[1], f[2], f[3])
    \/ \E r \in Requests : CacheGet(r)
    \/ \E r \in Requests : RepoLastDates(r)
    \/ \E r \in Requests : RepoDynamics(r)
    \/ \E r \in Requests : RepoLastDay(r)
    \/ \E r \in Requests : RepoRowsOfDay(r)
    \/ \E r \in Requests : CacheSet(r)

SpecCalls == CallsInit /\ [][CallsNext]_vars

\* The page of a dynamics request as the interface states it: limit absent
\* or in 1..10000, offset absent or at least 0.
WindowInRange(args) ==
    /\ \/ DictGet(args, K_limit) = PyNone
       \/ DictGet(args, K_limit)[2] \in 1 .. LIMIT_MAX
    /\ \/ DictGet(args, K_offset) = PyNone
       \/ DictGet(args, K_offset)[2] >= 0

\* C11: a dynamics query whose limit is outside 1..10000 or whose offset is
\* negative is rejected with a validation error when the call starts, with
\* no cache or repository operation made, so every dynamics query that
\* reaches the cache lookup or the repository has its page in range.
C11_PageInRange ==
    \A r \in Requests :
        (req[r].op = "dynamics" /\ ~WindowInRange(req[r].args)) =>
            /\ req[r].pc = "failed"
            /\ req[r].outcome = "ValueError"
            /\ req[r].trace = <<>>

(***************************************************************************)
(* The validation of the service on its own: one call, and whether the     *)
(* method raises ValueError before its first await.                        *)
(***************************************************************************)
\* get_last_trading_dates, lines 31-32.
Validate_last_trading_dates(days) ==
    IF days_rejected(days) THEN "ValueError" ELSE "ok"

\* get_dynamics, lines 49-52.
Validate_dynamics(q) ==
    IF start_after_end(q) \/ period_too_long(q) THEN "ValueError" ELSE "ok"

ValDays == (0 - 2) .. (MAX_LAST_DATES + 2)

\* Dates that give periods of 0, 1, 365, 366, 367 and 368 days (2020 is a
\* leap year) and periods that end before they start.
ValDates ==
    { <<2020, 1, 1>>, <<2020, 1, 2>>, <<2020, 12, 31>>, <<2021, 1, 1>>,
      <<2021, 1, 2>>, <<2021, 1, 3>>, <<2023, 1, 10>>, <<2023, 1, 11>> }

ValInit ==
    /\ \/ \E d \in ValDays :
             kb = [ op |-> "last_trading_dates", days |-> d, done |-> FALSE,
                    verdict |-> "" ]
       \/ \E s \in ValDates, e \in ValDates :
             kb = [ op |-> "dynamics",
                    q |-> [Q_base EXCEPT !.start_date = s, !.end_date = e],
                    done |-> FALSE, verdict |-> "" ]
    /\ clk = ClockIdle
    /\ now = 0 /\ tzname = "Europe/Moscow" /\ cache = <<>> /\ relation = {}
    /\ flushes = {} /\ req = <<>>

ValCheck ==
    /\ ~kb.done
    /\ kb' = [kb EXCEPT !.done = TRUE,
                        !.verdict = IF kb.op = "last_trading_dates"
                                    THEN Validate_last_trading_dates(kb.days)
                                    ELSE Validate_dynamics(kb.q)]
    /\ UNCHANGED <<now, tzname, cache, relation, flushes, req, clk>>

SpecValidate == ValInit /\ [][ValCheck]_vars

\* a is a later date than b, by year, then month, then day.
DateAfter(a, b) ==
    \/ a[1] > b[1]
    \/ a[1] = b[1] /\ a[2] > b[2]
    \/ a[1] = b[1] /\ a[2] = b[2] /\ a[3] > b[3]

\* The days from a to b, counted one day at a time over the calendar.
DaysInMonth(y, m) ==
    IF m = 2
    THEN IF (y % 4 = 0 /\ y % 100 # 0) \/ y % 400 = 0 THEN 29 ELSE 28
    ELSE IF m \in {4, 6, 9, 11} THEN 30 ELSE 31

DayOfYear(d) ==
    LET RECURSIVE Before(_)
        Before(m) == IF m = 1 THEN 0
                     ELSE Before(m - 1) + DaysInMonth(d[1], m - 1)
    IN  Before(d[2]) + d[3]

DaysInYear(y) == DaysInMonth(y, 2) + 337

RECURSIVE DaysToYear(_, _)
DaysToYear(from, to) ==
    IF from >= to THEN 0 ELSE DaysInYear(from) + DaysToYear(from + 1, to)

\* end - start in days, for dates from 2020 on.
SpanDays(start, end) ==
    (DaysToYear(2020, end[1]) + DayOfYear(end))
        - (DaysToYear(2020, start[1]) + DayOfYear(start))

\* C12: get_dynamics raises the validation error exactly when start_date is
\* after end_date or the period end_date - start_date is more than
\* MAX_DYNAMICS_SPAN_DAYS days; a period of 0 days and a period of exactly
\* MAX_DYNAMICS_SPAN_DAYS days are accepted.
C12_DynamicsRejectedExactly ==
    (kb.done /\ kb.op = "dynamics") =>
        /\ kb.verdict = "ValueError" <=>
              \/ DateAfter(kb.q.start_date, kb.q.end_date)
              \/ SpanDays(kb.q.start_date, kb.q.end_date)
                    > MAX_DYNAMICS_SPAN_DAYS
        /\ kb.q.start_date = kb.q.end_date => kb.verdict = "ok"
        /\ SpanDays(kb.q.start_date, kb.q.end_date) = MAX_DYNAMICS_SPAN_DAYS
              => kb.verdict = "ok"

\* C12 witness: a period of exactly MAX_DYNAMICS_SPAN_DAYS days, accepted.
C12_Witness ==
    /\ kb.done
    /\ kb.op = "dynamics"
    /\ SpanDays(kb.q.start_date, kb.q.end_date) = MAX_DYNAMICS_SPAN_DAYS
    /\ kb.verdict = "ok"

\* C13: get_last_trading_dates raises the validation error exactly when
\* days is less than 1 or more than MAX_LAST_DATES; 1 and MAX_LAST_DATES
\* themselves are accepted.
C13_DaysRejectedExactly ==
    (kb.done /\ kb.op = "last_trading_dates") =>
        /\ kb.verdict = "ValueError" <=>
              (kb.days < 1 \/ kb.days > MAX_LAST_DATES)
        /\ kb.days \in {1, MAX_LAST_DATES} => kb.verdict = "ok"

\* C13 witness: days = MAX_LAST_DATES, accepted.
C13_Witness ==
    /\ kb.done
    /\ kb.op = "last_trading_dates"
    /\ kb.days = MAX_LAST_DATES
    /\ kb.verdict = "ok"

(***************************************************************************)
(* Failures.  An await of the service may raise: the Redis client on a     *)
(* lookup or a store (connection lost, timeout), the database session on   *)
(* a statement.  The service methods have no try/except, so the exception  *)
(* leaves the method at the await that raised it.                          *)
(***************************************************************************)
\* cached = await cache_get(self.redis, key) raises.
lookup_failed_mut(rq) == [rq EXCEPT !.pc = "repo"]
lookup_failed(rq) ==
    [rq EXCEPT !.pc = "failed", !.outcome = "ConnectionError"]

\* await self.repo.get_...(...) raises.
repo_failed_mut(rq) ==
    [rq EXCEPT !.pc = "cache_set",
               !.stash = IF rq.op = "last_trading_dates"
                         THEN TradingDatesResponse_dump(<<>>)
                         ELSE PyList(<<>>)]
repo_failed(rq) ==
    [rq EXCEPT !.pc = "failed", !.outcome = "DBError", !.stash = PyNone,
               !.readAt = -1]

\* await cache_set_until_cutoff(self.redis, key, payload) raises.
store_failed(rq) ==
    [rq EXCEPT !.pc = "failed", !.outcome = "ConnectionError",
               !.stash = PyNone, !.readAt = -1]

CacheGetFails(r) ==
    /\ req[r].pc = "cache_get"
    /\ req' = [req EXCEPT ![r] =
          lookup_failed([@ EXCEPT !.trace = Append(@, "get"),
                                  !.fault = "cache_get"])]
    /\ UNCHANGED <<now, tzname, cache, relation, flushes, clk, kb>>

\* Either statement of a repository method raises.
RepoFails(r) ==
    /\ req[r].pc \in {"repo", "repo_day"}
    /\ req' = [req EXCEPT ![r] =
          repo_failed([@ EXCEPT !.trace = IF req[r].pc = "repo"
                                          THEN Append(@, "repo") ELSE @,
                                !.fault = "repo"])]
    /\ UNCHANGED <<now, tzname, cache, relation, flushes, clk, kb>>

\* The store raises; the server may or may not have applied the SET before
\* the client gave up.
CacheSetFails(r) ==
    /\ req[r].pc = "cache_set"
    /\ \E applied \in BOOLEAN :
          cache' = IF applied /\ redis_set_accepts(cache_ttl(now, tzname))
                   THEN cache_set_until_cutoff(cache, req[r].key,
                                               req[r].stash, now, tzname,
                                               req[r].readAt)
                   ELSE cache
    /\ req' = [req EXCEPT ![r] =
          store_failed([@ EXCEPT !.trace = Append(@, "set"),
                                 !.fault = "cache_set"])]
    /\ UNCHANGED <<now, tzname, relation, flushes, clk, kb>>

(***************************************************************************)
(* The router (app/api/routers.py).  FastAPI checks the declared ranges of *)
(* the query parameters before the handler runs; the handler calls the     *)
(* service and turns a ValueError into HTTPException(422).                 *)
(***************************************************************************)
\* days: int = Query(settings.DEFAULT_LAST_DATES, ge=1, le=settings.MAX_LAST_DATES)
Query_days_ok(days) == days >= 1 /\ days <= MAX_LAST_DATES

\* limit: Optional[int] = Query(None, ge=1, le=10000)
\* offset: Optional[int] = Query(None, ge=0)
Query_page_ok(q) ==
    /\ q.limit = PyNone \/ (q.limit[2] >= 1 /\ q.limit[2] <= LIMIT_MAX)
    /\ q.offset = PyNone \/ q.offset[2] >= 0

\* The request FastAPI refuses before the handler runs.
Refused(op, params) ==
    [IdleReq EXCEPT !.pc = "failed", !.op = op, !.args = params,
                    !.outcome = "RequestValidationError"]

Http_get_last_trading_dates(r, days) ==
    IF Query_days_ok(days)
    THEN Svc_get_last_trading_dates(r, days)
    ELSE /\ CanStart(r)
         /\ req' = [req EXCEPT ![r] =
               Refused("last_trading_dates", Params_last_trading_dates(days))]
         /\ UNCHANGED <<now, tzname, cache, relation, flushes, clk, kb>>

Http_get_dynamics(r, q) ==
    IF Query_page_ok(q)
    THEN Svc_get_dynamics(r, q)
    ELSE /\ CanStart(r)
         /\ req' = [req EXCEPT ![r] =
               Refused("dynamics", DynamicsQuery_model_dump(q))]
         /\ UNCHANGED <<now, tzname, cache, relation, flushes, clk, kb>>

Http_get_trading_results(r, oil_id, delivery_type_id, delivery_basis_id) ==
    Svc_get_trading_results(r, oil_id, delivery_type_id, delivery_basis_id)

\* The exceptions that are a ValueError: the service's own, and pydantic's
\* ValidationError, which derives from it.
IsValueError(outcome) == outcome \in {"ValueError", "ValidationError"}

\* The status the client gets for a request that ended with the outcome:
\* `except ValueError` in the handlers of /trading-dates and /dynamics, no
\* handler in /trading-results, 500 for what is not handled.
HttpStatus(op, outcome) ==
    CASE outcome \in {"hit", "miss"} -> 200
      [] outcome = "RequestValidationError" -> 422
      [] op \in {"last_trading_dates", "dynamics"} /\ IsValueError(outcome) -> 422
      [] OTHER -> 500

\* A row as the loader writes it: created_on is a timestamp (the column is
\* TIMESTAMP), here one second after midnight of the trading day.
StampedRow ==
    [ id |-> 3, exchange_product_id |-> "100", exchange_product_name |-> "DT",
      oil_id |-> "O1", delivery_basis_id |-> "BAS1",
      delivery_basis_name |-> "SPB", delivery_type_id |-> "DT1",
      volume |-> "30", total |-> "3000", count |-> "3",
      date |-> <<2023, 1, 11>>,
      created_on |-> PyDatetime(<<2023, 1, 11>>, 1), updated_on |-> PyNone ]

HttpDaysInputs == {0, 2}

HttpDynamicsInputs ==
    { Q_base,
      [Q_base EXCEPT !.start_date = <<2023, 1, 11>>, !.end_date = <<2023, 1, 10>>],
      [Q_base EXCEPT !.limit = PyInt(LIMIT_MAX + 1)] }

HttpFilterInputs == { <<PyNone, PyNone, PyNone>> }

FaultsInit ==
    /\ now = StartInstant
    /\ tzname = "Europe/Moscow"
    /\ cache = EmptyCache
    /\ relation \in {SeedRows, SeedRows \cup {StampedRow}}
    /\ flushes = {}
    /\ req = [r \in Requests |-> IdleReq]
    /\ clk = ClockIdle
    /\ kb = None

FaultsNext ==
    \/ \E r \in Requests, days \in HttpDaysInputs :
          Http_get_last_trading_dates(r, days)
    \/ \E r \in Requests, q \in HttpDynamicsInputs : Http_get_dynamics(r, q)
    \/ \E r \in Requests, f \in HttpFilterInputs :
          Http_get_trading_results(r, f[1], f[2], f[3])
    \/ \E r \in Requests : CacheGet(r)
    \/ \E r \in Requests : RepoLastDates(r)
    \/ \E r \in Requests : RepoDynamics(r)
    \/ \E r \in Requests : RepoLastDay(r)
    \/ \E r \in Requests : RepoRowsOfDay(r)
    \/ \E r \in Requests : CacheSet(r)
    \/ \E r \in Requests : CacheGetFails(r)
    \/ \E r \in Requests : RepoFails(r)
    \/ \E r \in Requests : CacheSetFails(r)

SpecFaults == FaultsInit /\ [][FaultsNext]_vars

\* How many times the operation occurs in the trace of a request.
Count(trace, what) == Cardinality({ i \in 1 .. Len(trace) : trace[i] = what })

\* C14: a request whose cache lookup or store fails ends with that error,
\* at that operation: after a failed lookup there is no repository call,
\* after a failed store the fetched result is not returned, and no request
\* makes a lookup or a store more than once (no retry, no fallback).
C14_CacheFailureEndsRequest ==
    [][\A r \in Requests :
          /\ (req[r].fault = "" /\ req'[r].fault = "cache_get") =>
                /\ req'[r].pc = "failed"
                /\ req'[r].outcome = "ConnectionError"
                /\ req'[r].trace = <<"get">>
                /\ req'[r].result = PyNone
          /\ (req[r].fault = "" /\ req'[r].fault = "cache_set") =>
                /\ req'[r].pc = "failed"
                /\ req'[r].outcome = "ConnectionError"
                /\ req'[r].trace = <<"get", "repo", "set">>
                /\ req'[r].result = PyNone
          /\ req[r].fault \in {"cache_get", "cache_set"} => req'[r] = req[r]
          /\ Count(req'[r].trace, "get") <= 1
          /\ Count(req'[r].trace, "set") <= 1]_vars

\* C14 witness: one request ended by a failed lookup, with no repository
\* call, and one ended by a failed store, with no result.
C14_Witness ==
    \E r1, r2 \in Requests :
        /\ req[r1].fault = "cache_get"
        /\ req[r1].trace = <<"get">>
        /\ req[r1].pc = "failed"
        /\ req[r2].fault = "cache_set"
        /\ req[r2].trace = <<"get", "repo", "set">>
        /\ req[r2].result = PyNone

\* C15: a request whose repository call fails ends with that error in the
\* same step, the cache is as it was, and the request never stores: no
\* entry is written for the failure, so a later request with the same key,
\* when no other request has stored under it, finds nothing and calls the
\* repository again.
C15_RepoFailureNotCached ==
    [][\A r \in Requests :
          /\ (req[r].fault = "" /\ req'[r].fault = "repo") =>
                /\ req'[r].pc = "failed"
                /\ req'[r].outcome = "DBError"
                /\ req'[r].result = PyNone
                /\ cache' = cache
          /\ req'[r].fault = "repo" =>
                /\ req'[r].pc = "failed"
                /\ Count(req'[r].trace, "set") = 0
          /\ ( /\ req[r].pc = "cache_get"
               /\ req'[r].outcome \in {"", "hit"}
               /\ req'[r].pc # "cache_get"
               /\ \E f \in Requests :
                     req[f].fault = "repo" /\ req[f].key = req[r].key
               /\ \A o \in Requests :
                     req[o].key = req[r].key => Count(req[o].trace, "set") = 0 )
                => req'[r].pc = "repo"]_vars

\* C15 witness: a request ended by a failed repository call, and a later
\* request with the same key that called the repository and returned.
C15_Witness ==
    \E f, r \in Requests :
        /\ req[f].fault = "repo"
        /\ req[f].outcome = "DBError"
        /\ req[r].key = req[f].key
        /\ req[r].outcome = "miss"
        /\ req[r].trace = <<"get", "repo", "set">>

\* The failures that are failures of validation: the ranges FastAPI
\* checks and the checks of the service.
FailedValidation(outcome) ==
    outcome \in {"RequestValidationError", "ValueError"}

\* C16: a request that ended in failure gets the status 422 exactly when it
\* failed validation; every other failure (cache error, payload of the
\* cache that does not validate, database error, row that does not convert
\* into a result) gets the status 500, on all three endpoints.
C16_StatusByFailureKind ==
    \A r \in Requests :
        req[r].pc = "failed" =>
            /\ HttpStatus(req[r].op, req[r].outcome) = 422
                  <=> FailedValidation(req[r].outcome)
            /\ ~FailedValidation(req[r].outcome)
                  => HttpStatus(req[r].op, req[r].outcome) = 500

(***************************************************************************)
(* Properties of requests that run together.                               *)
(***************************************************************************)
\* The request has missed: its lookup found nothing and it went on.
Missed(rq) == Len(rq.trace) >= 2

\* Two requests with one key that both missed.
SameMiss(a, b) ==
    /\ a # b
    /\ req[a].key = req[b].key
    /\ Missed(req[a])
    /\ Missed(req[b])

\* C17: of two requests that compute the same miss, each completes
\* successfully whatever the order of their lookup, repository and store
\* steps; both return the same result; and after each of their stores the
\* cache holds, under the one key, an entry whose value is that result.
C17_SameMissRace ==
    [][\A a, b \in Requests :
          SameMiss(a, b)' =>
             /\ req'[a].pc \in {"done", "failed"} =>
                   (req'[a].pc = "done" /\ req'[a].outcome = "miss")
             /\ (req'[a].pc = "done" /\ req'[b].pc = "done") =>
                   req'[a].result = req'[b].result
             /\ (req[a].pc = "cache_set" /\ req'[a].pc = "done") =>
                   /\ req[a].key \in DOMAIN cache'
                   /\ cache'[req[a].key].raw = Serialized(req'[a].result)
                   /\ req'[b].pc = "done" =>
                         cache'[req[a].key].raw = Serialized(req'[b].result)]_vars

\* The part of C17 that is about the race itself: for the requests whose
\* store Redis accepts, the results are the same and the entry holds them.
C17_RaceIsHarmless ==
    [][\A a, b \in Requests :
          SameMiss(a, b)' =>
             /\ (req'[a].pc = "done" /\ req'[b].pc = "done") =>
                   req'[a].result = req'[b].result
             /\ (req[a].pc = "cache_set" /\ req'[a].pc = "done") =>
                   /\ req[a].key \in DOMAIN cache'
                   /\ cache'[req[a].key].raw = Serialized(req'[a].result)
                   /\ req'[b].pc = "done" =>
                         cache'[req[a].key].raw = Serialized(req'[b].result)]_vars

\* No other request has the key of the request.
Alone(r) ==
    /\ req[r].key # NoKey
    /\ \A o \in Requests \ {r} : req[o].key # req[r].key

\* The results the request returns when it runs on its own, from a cache
\* that holds nothing under its key: those made from what the repository
\* gives for its arguments.
SoloResults(rq) ==
    CASE rq.op = "last_trading_dates" ->
            { TradingDatesResponse_validate(TradingDatesResponse_dump(
                Repo_get_last_trading_dates(relation,
                                            DictGet(rq.args, K_days)[2]))) }
      [] rq.op = "dynamics" ->
            { TradingResults_from_items(
                PyList([i \in 1 .. Len(rows) |-> TradingResult_from_row(rows[i])])) :
              rows \in Repo_get_dynamics(relation,
                          DictGet(rq.args, K_start_date)[2],
                          DictGet(rq.args, K_end_date)[2],
                          DictGet(rq.args, K_oil_id),
                          DictGet(rq.args, K_delivery_type_id),
                          DictGet(rq.args, K_delivery_basis_id),
                          DictGet(rq.args, K_limit), DictGet(rq.args, K_offset)) }
      [] rq.op = "trading_results" ->
            { TradingResults_from_items(
                PyList([i \in 1 .. Len(rows) |-> TradingResult_from_row(rows[i])])) :
              rows \in Repo_rows_of_day(relation,
                          Repo_get_last_trading_day(relation),
                          DictGet(rq.args, K_oil_id),
                          DictGet(rq.args, K_delivery_type_id),
                          DictGet(rq.args, K_delivery_basis_id)) }

\* The two stores hold the same under the key: nothing, or the same entry.
SameEntry(s1, s2, key) ==
    /\ (key \in DOMAIN s1) <=> (key \in DOMAIN s2)
    /\ key \in DOMAIN s1 => s1[key] = s2[key]

\* C18: a request whose key no other request has behaves, in every
\* interleaving, as it does on its own: its lookup finds nothing, it
\* returns a result of the repository for its arguments, its store changes
\* the entry under its own key only, to that result, and no step of
\* another request changes it or the entry under its key.
C18_DifferentKeysIndependent ==
    [][\A r \in Requests :
          Alone(r)' =>
             /\ (req[r].pc = "cache_get" /\ req'[r].pc # "cache_get") =>
                   (req'[r].pc = "repo" /\ cache' = cache)
             /\ (req[r].pc = "cache_set" /\ req'[r].pc = "done") =>
                   /\ req'[r].result \in SoloResults(req[r])
                   /\ req[r].key \in DOMAIN cache'
                   /\ cache'[req[r].key].raw = Serialized(req'[r].result)
                   /\ \A k \in (DOMAIN cache \cup DOMAIN cache') \ {req[r].key} :
                         SameEntry(cache', cache, k)
             /\ \A o \in Requests \ {r} :
                   req'[o] # req[o] =>
                      /\ req'[r] = req[r]
                      /\ SameEntry(cache', cache, req[r].key)]_vars

\* C18 witness: two requests of different operations, both returned, and
\* an entry under the key of each.
C18_Witness ==
    \E a, b \in Requests :
        /\ req[a].op = "dynamics"
        /\ req[b].op = "trading_results"
        /\ req[a].outcome = "miss"
        /\ req[b].outcome = "miss"
        /\ Len(req[a].result[2]) > 0
        /\ {req[a].key, req[b].key} \subseteq DOMAIN cache

\* The entry is the one the request stored on its miss: the request has
\* returned from a miss under the key, and the entry holds the serialized
\* form of the result it returned.
StoredBy(a, key, entry) ==
    /\ req[a].pc = "done"
    /\ req[a].outcome = "miss"
    /\ req[a].key = key
    /\ entry.raw = Serialized(req[a].result)

\* C19: a lookup that finds an entry returns a result, the entry is one
\* that a miss under the same key stored, and the result returned is equal
\* to the result that miss returned: the same rows in the same order with
\* the same field values, dates included.
C19_MissEqualsLaterHits ==
    [][\A r \in Requests :
          (req[r].pc = "cache_get" /\ req'[r].pc # "cache_get"
             /\ Readable(cache, req[r].key, now)) =>
             /\ req'[r].pc = "done"
             /\ req'[r].outcome = "hit"
             /\ \E a \in Requests \ {r} :
                   StoredBy(a, req[r].key, cache[req[r].key])
             /\ \A a \in Requests \ {r} :
                   StoredBy(a, req[r].key, cache[req[r].key]) =>
                      req'[r].result = req[a].result]_vars

\* C19 witness: a miss and a later hit under the same key, for rows with
\* dates and for the list of dates, with equal results that are not empty.
C19_Witness ==
    \E a, b \in Requests :
        /\ req[a].outcome = "miss"
        /\ req[b].outcome = "hit"
        /\ req[a].key = req[b].key
        /\ req[a].op \in {"dynamics", "last_trading_dates"}
        /\ req[a].result = req[b].result
        /\ req[a].op = "dynamics" => Len(req[a].result[2]) > 1
        /\ req[a].op = "last_trading_dates" =>
              Len(DictGet(req[a].result, K_dates)[2]) > 1

(***************************************************************************)
(* The round trip of the cache adapter (app/core/caching.py; the test      *)
(* test_cache_set_and_get): cache_set_until_cutoff(k, v), then at the same *)
(* instant cache_get(k), for a key, a value and an instant drawn from      *)
(* bounded sets and a database that holds nothing or an older entry under  *)
(* the key.  kb holds the arguments and what the two calls gave.           *)
(***************************************************************************)
RtKeys == { Key_last_trading_dates(1), Key_last_trading_dates(2) }

\* JSON-representable values: null, strings, integers, and lists and dicts
\* with string keys of them, nested.
RtValues ==
    { PyNone, PyStr(""), PyStr("100"), PyInt(0), PyInt(2),
      PyList(<<>>), PyList(<<PyInt(2), PyStr("100"), PyNone>>),
      PyDict(<<>>),
      PyDict(<< <<K_offset, PyInt(0)>>, <<K_limit, PyNone>> >>),
      PyDict(<< <<K_dates, PyList(<<PyStr("2023-01-11"), PyStr("2023-01-10")>>)>> >>),
      PyList(<< PyDict(<< <<K_id, PyInt(2)>>, <<K_date, PyStr("2023-01-11")>> >>),
                PyDict(<< <<K_id, PyInt(0)>>, <<K_date, PyStr("2023-01-10")>> >>) >>) }

\* The instants of the set: the start, one second and one tick before the
\* cutoff, the cutoff, one tick after it.
RtInstants(tz) ==
    { StartInstant, SysCutoff(tz) - SubSec, SysCutoff(tz) - 1, SysCutoff(tz),
      SysCutoff(tz) + 1 }

RtInit ==
    /\ tzname \in SysZones
    /\ now \in RtInstants(tzname)
    /\ \E k \in RtKeys, v \in RtValues :
          /\ kb = [ key |-> k, value |-> v, done |-> FALSE, raised |-> "",
                    got |-> PyNone ]
          /\ cache \in { EmptyCache,
                         redis_set(EmptyCache, k, orjson_dumps(PyStr("old"), FALSE),
                                   1, now, now) }
    /\ clk = ClockIdle
    /\ relation = {} /\ flushes = {} /\ req = <<>>

\* await cache_set_until_cutoff(redis, key, value); await cache_get(redis, key)
RoundTrip ==
    /\ ~kb.done
    /\ IF redis_set_accepts(cache_ttl(now, tzname))
       THEN /\ cache' = cache_set_until_cutoff(cache, kb.key, kb.value, now,
                                               tzname, now)
            /\ kb' = [kb EXCEPT !.done = TRUE,
                                !.got = cache_get(cache', kb.key, now)]
       ELSE /\ cache' = cache
            /\ kb' = [kb EXCEPT !.done = TRUE, !.raised = "ResponseError"]
    /\ UNCHANGED <<now, tzname, relation, flushes, req, clk>>

SpecRoundTrip == RtInit /\ [][RoundTrip]_vars

\* C20: the set followed at once by the get returns a value equal to the
\* value that was set, for every key, every value and every instant of
\* the set.
C20_RoundTrip ==
    kb.done => (kb.raised = "" /\ kb.got = kb.value)

\* What holds of the round trip: whenever the set is accepted, the get
\* returns a value equal to the value that was set, over an absent or an
\* older entry alike.
C20_RoundTripWhenStored ==
    (kb.done /\ kb.raised = "") => kb.got = kb.value

(***************************************************************************)
(* cache_get alone (app/core/caching.py), over a database that holds,      *)
(* under each of two keys, nothing, an expired entry or an unexpired entry *)
(* with the bytes of a JSON value.  kb holds the key and what the call     *)
(* gave.                                                                   *)
(***************************************************************************)
\* The database with the entry added: written one second before t, to
\* expire ex seconds after it was written.
WithEntry(store, key, v, ex, t) ==
    redis_set(store, key, orjson_dumps(v, FALSE), ex, t - SubSec, t - SubSec)

\* The entries a key may hold at t: none, expired, unexpired.
GetStores(store, key, t) ==
    {store} \cup {WithEntry(store, key, PyStr("old"), 1, t)}
            \cup {WithEntry(store, key, v, 2, t) : v \in RtValues}

GetInit ==
    /\ tzname = "Europe/Moscow"
    /\ now = StartInstant
    /\ \E k1 \in RtKeys :
          \E k2 \in RtKeys \ {k1}, s1 \in GetStores(EmptyCache, k1, now) :
             /\ cache \in GetStores(s1, k2, now)
             /\ kb = [ key |-> k1, done |-> FALSE, raised |-> "", got |-> PyNone ]
    /\ clk = ClockIdle
    /\ relation = {} /\ flushes = {} /\ req = <<>>

\* raw = await redis.get(key); return None if raw is None else orjson.loads(raw)
Get ==
    /\ ~kb.done
    /\ kb' = [kb EXCEPT !.done = TRUE, !.got = cache_get(cache, kb.key, now)]
    /\ UNCHANGED <<now, tzname, cache, relation, flushes, req, clk>>

SpecGet == GetInit /\ [][Get]_vars

\* C21: cache_get gives the miss result, without raising, for a key with
\* no unexpired entry, and a value that is not the miss result for every
\* key that holds an unexpired entry.
C21_PresentNeverMiss ==
    kb.done =>
       /\ kb.raised = ""
       /\ ~Readable(cache, kb.key, now) => kb.got = PyNone
       /\ Readable(cache, kb.key, now) => kb.got # PyNone

\* What holds of cache_get: a key with no unexpired entry gives the miss
\* result, and an unexpired entry gives the value its bytes decode to.
C21_GetDecodesEntry ==
    kb.done =>
       /\ kb.raised = ""
       /\ ~Readable(cache, kb.key, now) => kb.got = PyNone
       /\ Readable(cache, kb.key, now) =>
             orjson_dumps(kb.got, FALSE) = cache[kb.key].raw

(***************************************************************************)
(* The flush (app/core/caching.py, flush_all; the test test_flush_all) in  *)
(* a database that other writers use too: at the cutoff the database holds *)
(* an entry under a key that is not of this service and, in some starts,   *)
(* an entry under a key of the service; requests run before and after the  *)
(* flush.                                                                  *)
(***************************************************************************)
ForeignKey == [ prefix |-> "session:", hexdigest |-> <<"sha256", <<"string", "k">>>> ]

FlushDays == 2
FlushFilter == <<PyNone, PyNone, PyNone>>

\* The keys of the requests made.
FlushKeys ==
    { Key_last_trading_dates(FlushDays), Key_dynamics(Q_base),
      Key_trading_results(FlushFilter[1], FlushFilter[2], FlushFilter[3]) }

FlushInit ==
    /\ tzname = "Europe/Moscow"
    /\ now = SysCutoff(tzname)
    /\ \E foreign \in { WithEntry(EmptyCache, ForeignKey,
                                  PyDict(<< <<"v", PyInt(1)>> >>), SecPerDay, now) } :
          cache \in
            { foreign,
              WithEntry(foreign, Key_last_trading_dates(FlushDays),
                        TradingDatesResponse_dump(<< <<2023, 1, 10>> >>),
                        SecPerDay, now) }
    /\ relation = SeedRows
    /\ flushes = {}
    /\ req = [r \in Requests |-> IdleReq]
    /\ clk = ClockIdle
    /\ kb = None

FlushNext ==
    \/ \E r \in Requests : Svc_get_last_trading_dates(r, FlushDays)
    \/ \E r \in Requests : Svc_get_dynamics(r, Q_base)
    \/ \E r \in Requests :
          Svc_get_trading_results(r, FlushFilter[1], FlushFilter[2], FlushFilter[3])
    \/ \E r \in Requests : CacheGet(r)
    \/ \E r \in Requests : RepoLastDates(r)
    \/ \E r \in Requests : RepoDynamics(r)
    \/ \E r \in Requests : RepoLastDay(r)
    \/ \E r \in Requests : RepoRowsOfDay(r)
    \/ \E r \in Requests : CacheSet(r)
    \/ flush_all

SpecFlush == FlushInit /\ [][FlushNext]_vars

\* C22: when flush_all completes, cache_get gives a miss for every key the
\* database held before the call, the keys of other writers included, and
\* for the key of every request; and a request whose lookup gives a miss
\* goes on to the repository.
C22_FlushClearsEveryKey ==
    [][/\ flushes' # flushes =>
             /\ \A k \in DOMAIN cache : cache_get(cache', k, now') = PyNone
             /\ \A k \in FlushKeys : ~cache_hit(cache_get(cache', k, now'))
       /\ \A r \in Requests :
             (req[r].pc = "cache_get" /\ req'[r].pc # "cache_get"
                /\ ~cache_hit(cache_get(cache, req[r].key, now))) =>
                req'[r].pc = "repo"]_vars

\* C22 witness: a request answered from an entry before the flush, and
\* after the flush a request with the same key that missed and returned
\* from the repository; the entry of the other writer is gone.
C22_Witness ==
    /\ flushes # {}
    /\ ForeignKey \notin DOMAIN cache
    /\ \E a, b \in Requests :
          /\ req[a].outcome = "hit"
          /\ req[b].outcome = "miss"
          /\ req[a].key = req[b].key
          /\ "repo" \in { req[b].trace[i] : i \in 1 .. Len(req[b].trace) }

(***************************************************************************)
(* The repository on its own (app/repositories/spimex_repo.py): one call   *)
(* of one of its four methods on a relation that is any subset of four     *)
(* rows, with the arguments drawn from bounded sets.  kb holds the call    *)
(* and what it returned.                                                   *)
(***************************************************************************)
RepoRowC ==
    [SeedRow1 EXCEPT !.id = 3, !.exchange_product_id = "20",
                     !.date = <<2023, 1, 11>>]
RepoRowD == [SeedRow2 EXCEPT !.id = 4]
RepoRows == {SeedRow1, SeedRow2, RepoRowC, RepoRowD}

RepoRanges ==
    { << <<2023, 1, 10>>, <<2023, 1, 10>> >>, << <<2023, 1, 10>>, <<2023, 1, 11>> >>,
      << <<2023, 1, 11>>, <<2023, 1, 11>> >> }
RepoOils == { PyNone, PyStr(""), PyStr("O1"), PyStr("O2") }
RepoBases == { PyNone, PyStr("BAS2") }
RepoLimits == { PyNone, PyInt(0), PyInt(1), PyInt(2) }
RepoOffsets == { PyNone, PyInt(0), PyInt(1) }
RepoDays == 0 .. 3

RepoIdle ==
    [ op |-> "", start_date |-> <<2023, 1, 10>>, end_date |-> <<2023, 1, 10>>,
      oil_id |-> PyNone, delivery_type_id |-> PyNone,
      delivery_basis_id |-> PyNone, limit |-> PyNone, offset |-> PyNone,
      days |-> 0, done |-> FALSE, rows |-> <<>>, dates |-> <<>>,
      day |-> PyNone ]

RepoInit ==
    /\ relation \in SUBSET RepoRows
    /\ \/ \E rg \in RepoRanges, oil \in RepoOils, basis \in RepoBases,
             lim \in RepoLimits, off \in RepoOffsets :
             kb = [RepoIdle EXCEPT !.op = "get_dynamics",
                      !.start_date = rg[1], !.end_date = rg[2],
                      !.oil_id = oil, !.delivery_basis_id = basis,
                      !.limit = lim, !.offset = off]
       \/ \E oil \in RepoOils, basis \in RepoBases :
             kb = [RepoIdle EXCEPT !.op = "get_trading_results_for_last_day",
                      !.oil_id = oil, !.delivery_basis_id = basis]
       \/ \E n \in RepoDays :
             kb = [RepoIdle EXCEPT !.op = "get_last_trading_dates", !.days = n]
       \/ kb = [RepoIdle EXCEPT !.op = "get_last_trading_day"]
    /\ clk = ClockIdle
    /\ now = 0 /\ tzname = "Europe/Moscow" /\ cache = <<>>
    /\ flushes = {} /\ req = <<>>

Call_get_dynamics ==
    /\ kb.op = "get_dynamics" /\ ~kb.done
    /\ \E rows \in Repo_get_dynamics(relation, kb.start_date, kb.end_date,
                       kb.oil_id, kb.delivery_type_id, kb.delivery_basis_id,
                       kb.limit, kb.offset) :
          kb' = [kb EXCEPT !.done = TRUE, !.rows = rows]
    /\ UNCHANGED <<now, tzname, cache, relation, flushes, req, clk>>

Call_get_last_trading_dates ==
    /\ kb.op = "get_last_trading_dates" /\ ~kb.done
    /\ kb' = [kb EXCEPT !.done = TRUE,
                        !.dates = Repo_get_last_trading_dates(relation, kb.days)]
    /\ UNCHANGED <<now, tzname, cache, relation, flushes, req, clk>>

Call_get_last_trading_day ==
    /\ kb.op = "get_last_trading_day" /\ ~kb.done
    /\ kb' = [kb EXCEPT !.done = TRUE,
                        !.day = Repo_get_last_trading_day(relation)]
    /\ UNCHANGED <<now, tzname, cache, relation, flushes, req, clk>>

\* last = await self.get_last_trading_day(); if not last: return []; then
\* the statement over the rows of that day.
Call_get_trading_results_for_last_day ==
    /\ kb.op = "get_trading_results_for_last_day" /\ ~kb.done
    /\ LET last == Repo_get_last_trading_day(relation)
       IN  IF last = PyNone
           THEN kb' = [kb EXCEPT !.done = TRUE, !.rows = <<>>]
           ELSE \E rows \in Repo_rows_of_day(relation, last, kb.oil_id,
                               kb.delivery_type_id, kb.delivery_basis_id) :
                   kb' = [kb EXCEPT !.done = TRUE, !.day = last, !.rows = rows]
    /\ UNCHANGED <<now, tzname, cache, relation, flushes, req, clk>>

RepoNext ==
    \/ Call_get_dynamics
    \/ Call_get_last_trading_dates
    \/ Call_get_last_trading_day
    \/ Call_get_trading_results_for_last_day

SpecRepo == RepoInit /\ [][RepoNext]_vars

\* The rows of a result, and a result that holds no row twice.
RowsOf(seq) == { seq[i] : i \in 1 .. Len(seq) }
NoRowTwice(seq) == \A i, j \in 1 .. Len(seq) : seq[i] = seq[j] => i = j

\* The row has the date in the period, ends included.
InPeriod(row, start_date, end_date) ==
    /\ ~DateAfter(start_date, row.date)
    /\ ~DateAfter(row.date, end_date)

\* The row satisfies every filter that is provided, that is, not null.
ProvidedFiltersHold(row, oil_id, delivery_type_id, delivery_basis_id) ==
    /\ oil_id # PyNone => PyStr(row.oil_id) = oil_id
    /\ delivery_type_id # PyNone => PyStr(row.delivery_type_id) = delivery_type_id
    /\ delivery_basis_id # PyNone => PyStr(row.delivery_basis_id) = delivery_basis_id

\* The rows of the relation that match the call of get_dynamics.
Matching ==
    { row \in relation :
        /\ InPeriod(row, kb.start_date, kb.end_date)
        /\ ProvidedFiltersHold(row, kb.oil_id, kb.delivery_type_id,
                               kb.delivery_basis_id) }

\* C23: without a window, get_dynamics returns exactly the rows whose date
\* is in the period, ends included, and that satisfy every filter that is
\* not null, whatever its string value, each once.
C23_ExactlyMatchingRows ==
    (kb.op = "get_dynamics" /\ kb.done
       /\ kb.limit = PyNone /\ kb.offset = PyNone) =>
       /\ RowsOf(kb.rows) = Matching
       /\ NoRowTwice(kb.rows)

\* What holds of get_dynamics: the same, when no filter is the empty
\* string.
C23_MatchingRowsNonEmptyFilters ==
    (kb.op = "get_dynamics" /\ kb.done
       /\ kb.limit = PyNone /\ kb.offset = PyNone
       /\ PyStr("") \notin {kb.oil_id, kb.delivery_type_id, kb.delivery_basis_id}) =>
       /\ RowsOf(kb.rows) = Matching
       /\ NoRowTwice(kb.rows)

\* The window the interface states: the rows at positions offset + 1 ..
\* offset + limit of the sequence, counting from 1, where a null offset is
\* 0 and a null limit is no bound.
StatedWindow(seq, limit, offset) ==
    LET skip == IF offset = PyNone THEN 0 ELSE offset[2]
        rest == SubSeq(seq, Min(skip, Len(seq)) + 1, Len(seq))
    IN  IF limit = PyNone THEN rest
        ELSE SubSeq(rest, 1, Min(limit[2], Len(rest)))

\* The ordered results of the call without a window.
Unwindowed ==
    Repo_get_dynamics(relation, kb.start_date, kb.end_date, kb.oil_id,
                      kb.delivery_type_id, kb.delivery_basis_id, PyNone, PyNone)

\* C24: get_dynamics returns the rows at positions offset .. offset +
\* limit - 1 of the ordered result, never more rows than a provided limit,
\* and only a null limit or offset is no bound on its side.
C24_OffsetThenLimit ==
    (kb.op = "get_dynamics" /\ kb.done) =>
       /\ kb.rows \in { StatedWindow(seq, kb.limit, kb.offset) : seq \in Unwindowed }
       /\ kb.limit # PyNone => Len(kb.rows) <= kb.limit[2]

\* What holds of get_dynamics: the same, when the limit is not 0.
C24_WindowNonZeroLimit ==
    (kb.op = "get_dynamics" /\ kb.done /\ kb.limit # PyInt(0)) =>
       /\ kb.rows \in { StatedWindow(seq, kb.limit, kb.offset) : seq \in Unwindowed }
       /\ kb.limit # PyNone => Len(kb.rows) <= kb.limit[2]

(***************************************************************************)
(* Paging through get_dynamics: a client reads the period page by page,    *)
(* with limit L and offsets 0, L, 2L, ..., each page one call on the same  *)
(* relation, until a page comes back short.  kb holds the pages read so    *)
(* far, one after the other.                                               *)
(***************************************************************************)
PageLimits == {1, 2}

PagesInit ==
    /\ relation \in SUBSET RepoRows
    /\ \E rg \in RepoRanges, L \in PageLimits :
          kb = [ start_date |-> rg[1], end_date |-> rg[2], limit |-> L,
                 offset |-> 0, pages |-> <<>>, done |-> FALSE ]
    /\ clk = ClockIdle
    /\ now = 0 /\ tzname = "Europe/Moscow" /\ cache = <<>>
    /\ flushes = {} /\ req = <<>>

FetchPage ==
    /\ ~kb.done
    /\ \E rows \in Repo_get_dynamics(relation, kb.start_date, kb.end_date,
                       PyNone, PyNone, PyNone, PyInt(kb.limit), PyInt(kb.offset)) :
          kb' = [kb EXCEPT !.pages = @ \o rows,
                           !.offset = @ + kb.limit,
                           !.done = Len(rows) < kb.limit]
    /\ UNCHANGED <<now, tzname, cache, relation, flushes, req, clk>>

SpecPages == PagesInit /\ [][FetchPage]_vars

\* The rows of the relation in the period.
InPagedPeriod == { row \in relation : InPeriod(row, kb.start_date, kb.end_date) }

\* No two rows of the relation have the same date and product id.
NoTies ==
    \A a, b \in relation :
        (a.date = b.date /\ a.exchange_product_id = b.exchange_product_id) => a = b

\* C25: the pages read with offsets 0, L, 2L, ... and limit L from an
\* unchanged relation hold, put together, every matching row once: none
\* twice and none left out, also when rows share date and product id.
C25_PagesPartitionResult ==
    kb.done =>
       /\ NoRowTwice(kb.pages)
       /\ RowsOf(kb.pages) = InPagedPeriod

\* What holds of the pages: the same, when no two rows of the relation
\* share date and product id, and then in the one order of the result.
C25_PagesWithoutTies ==
    (kb.done /\ NoTies) =>
       /\ NoRowTwice(kb.pages)
       /\ RowsOf(kb.pages) = InPagedPeriod
       /\ \A i, j \in 1 .. Len(kb.pages) :
             i < j => DynamicsLess(kb.pages[i], kb.pages[j])

\* C26: every result of get_dynamics is sorted by date ascending and,
\* among rows of the same date, by product id ascending in text order.
C26_SortedByDateThenProduct ==
    (kb.op = "get_dynamics" /\ kb.done) =>
       \A i, j \in 1 .. Len(kb.rows) :
          i < j =>
             /\ ~DateAfter(kb.rows[i].date, kb.rows[j].date)
             /\ kb.rows[i].date = kb.rows[j].date =>
                   StrRank(kb.rows[i].exchange_product_id)
                      <= StrRank(kb.rows[j].exchange_product_id)

\* C26 witness: a result with rows of two dates and, on the later date,
\* product "101" before product "20".
C26_Witness ==
    /\ kb.op = "get_dynamics" /\ kb.done
    /\ Len(kb.rows) >= 3
    /\ kb.rows[1].date = <<2023, 1, 10>>
    /\ \E i \in 2 .. Len(kb.rows) - 1 :
          /\ kb.rows[i].date = <<2023, 1, 11>>
          /\ kb.rows[i].exchange_product_id = "101"
          /\ kb.rows[i + 1].exchange_product_id = "20"

\* The rows of the latest date of the whole relation.
OfLatestDay ==
    { row \in relation : \A other \in relation : ~DateAfter(other.date, row.date) }

\* The result is in ascending text order of the product id.
SortedByProduct(seq) ==
    \A i, j \in 1 .. Len(seq) :
        i < j => StrRank(seq[i].exchange_product_id)
                    <= StrRank(seq[j].exchange_product_id)

\* get_last_trading_day gives the latest date of the relation, and None
\* for an empty relation.
LatestDayRight ==
    (kb.op = "get_last_trading_day" /\ kb.done) =>
       /\ relation = {} => kb.day = PyNone
       /\ relation # {} => kb.day \in { PyDate(row.date) : row \in OfLatestDay }

\* C27: get_trading_results_for_last_day returns exactly the rows of the
\* latest date of the whole relation that satisfy every filter that is
\* provided, in ascending order of the product id, and nothing for an
\* empty relation; get_last_trading_day gives None for an empty relation.
C27_LastDayRows ==
    /\ LatestDayRight
    /\ (kb.op = "get_trading_results_for_last_day" /\ kb.done) =>
          /\ RowsOf(kb.rows) =
                { row \in OfLatestDay :
                    ProvidedFiltersHold(row, kb.oil_id, kb.delivery_type_id,
                                        kb.delivery_basis_id) }
          /\ NoRowTwice(kb.rows)
          /\ SortedByProduct(kb.rows)
          /\ relation = {} => kb.rows = <<>>

\* What holds of the two methods: the same, when no filter is the empty
\* string.
C27_LastDayRowsNonEmptyFilters ==
    /\ LatestDayRight
    /\ (kb.op = "get_trading_results_for_last_day" /\ kb.done
          /\ PyStr("") \notin {kb.oil_id, kb.delivery_type_id, kb.delivery_basis_id}) =>
          /\ RowsOf(kb.rows) =
                { row \in OfLatestDay :
                    ProvidedFiltersHold(row, kb.oil_id, kb.delivery_type_id,
                                        kb.delivery_basis_id) }
          /\ NoRowTwice(kb.rows)
          /\ SortedByProduct(kb.rows)
          /\ relation = {} => kb.rows = <<>>

\* The dates of the relation.
TradingDates == { row.date : row \in relation }

\* C28: get_last_trading_dates(n) returns dates of the relation in strictly
\* descending order, so none twice; min(n, number of distinct dates) of
\* them; and no date it leaves out is later than one it returns.
C28_LatestDistinctDates ==
    (kb.op = "get_last_trading_dates" /\ kb.done) =>
       /\ RowsOf(kb.dates) \subseteq TradingDates
       /\ \A i, j \in 1 .. Len(kb.dates) :
             i < j => DateAfter(kb.dates[i], kb.dates[j])
       /\ Len(kb.dates) = IF kb.days <= Cardinality(TradingDates)
                          THEN kb.days ELSE Cardinality(TradingDates)
       /\ \A d \in TradingDates \ RowsOf(kb.dates), r \in RowsOf(kb.dates) :
             ~DateAfter(d, r)

\* C28 witness: the relation has rows of two dates, more rows than dates,
\* and the call for one date returned the later one.
C28_Witness ==
    /\ kb.op = "get_last_trading_dates" /\ kb.done
    /\ kb.days = 1
    /\ Cardinality(TradingDates) = 2
    /\ Cardinality(relation) > 2
    /\ kb.dates = << <<2023, 1, 11>> >>

\* C29: no step of a request, on the hit, miss or error path of any of
\* the three operations, changes the relation.
C29_RelationNeverChanged ==
    [][relation' = relation]_vars

\* C29 witness: one request returned from the repository, another ended
\* with a database error, and the relation holds the rows it started with.
C29_Witness ==
    /\ SeedRows \subseteq relation
    /\ \E a, b \in Requests :
          /\ req[a].outcome = "miss"
          /\ "set" \in RowsOf(req[a].trace)
          /\ req[b].outcome = "DBError"

(***************************************************************************)
(* Cancellation (asyncio.CancelledError raised at the await a request      *)
(* stands at, when the caller is gone).  The service has no handler and no *)
(* cleanup; a cancelled store is one SET command that the server either    *)
(* received and applied whole or never received.                           *)
(***************************************************************************)
cancelled_set_mut(store, rq, t, tz) ==
    { store, redis_set(store, rq.key, <<"array">>, 1, t, rq.readAt) }
\* The database after a request is cancelled in cache_set_until_cutoff.
cancelled_set(store, rq, t, tz) ==
    {store} \cup
      IF redis_set_accepts(cache_ttl(t, tz))
      THEN { cache_set_until_cutoff(store, rq.key, rq.stash, t, tz, rq.readAt) }
      ELSE {}

Cancel(r) ==
    /\ req[r].pc \in {"cache_get", "repo", "repo_day", "cache_set"}
    /\ cache' \in IF req[r].pc = "cache_set"
                  THEN cancelled_set(cache, req[r], now, tzname)
                  ELSE {cache}
    /\ req' = [req EXCEPT ![r] =
          [@ EXCEPT !.pc = "cancelled", !.outcome = "CancelledError",
                    !.stash = PyNone, !.readAt = -1]]
    /\ UNCHANGED <<now, tzname, relation, flushes, clk, kb>>

CancelInit ==
    /\ now = StartInstant
    /\ tzname = "Europe/Moscow"
    /\ cache = EmptyCache
    /\ relation = SeedRows
    /\ flushes = {}
    /\ req = [r \in Requests |-> IdleReq]
    /\ clk = ClockIdle
    /\ kb = None

CancelNext ==
    \/ \E r \in Requests : Svc_get_last_trading_dates(r, FlushDays)
    \/ \E r \in Requests : Svc_get_dynamics(r, Q_base)
    \/ \E r \in Requests :
          Svc_get_trading_results(r, FlushFilter[1], FlushFilter[2], FlushFilter[3])
    \/ \E r \in Requests : CacheGet(r)
    \/ \E r \in Requests : RepoLastDates(r)
    \/ \E r \in Requests : RepoDynamics(r)
    \/ \E r \in Requests : RepoLastDay(r)
    \/ \E r \in Requests : RepoRowsOfDay(r)
    \/ \E r \in Requests : CacheSet(r)
    \/ \E r \in Requests : Cancel(r)

SpecCancel == CancelInit /\ [][CancelNext]_vars

\* The entry is one complete serialized result with its expiry: the bytes
\* of the payload the request was storing, to expire after the write.
CompleteEntry(entry, rq) ==
    /\ entry.raw = Serialized(Response(rq.op, rq.stash))
    /\ entry.expireAt > entry.writtenAt

\* C30: the step that cancels a request leaves under the request's key
\* the entry that was there before, or none if there was none, or one
\* complete serialized result with its expiry; it changes no other key;
\* and the cancelled request does nothing more.
C30_CancelLeavesNoPartialState ==
    [][\A r \in Requests :
          /\ (req[r].pc # "cancelled" /\ req'[r].pc = "cancelled") =>
                /\ \/ SameEntry(cache', cache, req[r].key)
                   \/ /\ req[r].pc = "cache_set"
                      /\ req[r].key \in DOMAIN cache'
                      /\ CompleteEntry(cache'[req[r].key], req[r])
                /\ \A k \in (DOMAIN cache \cup DOMAIN cache') \ {req[r].key} :
                      SameEntry(cache', cache, k)
          /\ req[r].pc = "cancelled" => req'[r] = req[r]]_vars

\* C30 witness: a request was cancelled in its store over the entry of an
\* earlier request with the same key, and the entry under the key is
\* complete.
C30_Witness ==
    \E a, b \in Requests :
        /\ req[a].outcome = "miss"
        /\ req[b].pc = "cancelled"
        /\ req[b].key = req[a].key
        /\ req[b].op = "dynamics"
        /\ req[b].trace = <<"get", "repo">>
        /\ req[a].key \in DOMAIN cache
        /\ cache[req[a].key].raw = Serialized(req[a].result)

(***************************************************************************)
(* The lifespan of the application (app/main.py): on start it opens the    *)
(* Redis client, builds AsyncIOScheduler(timezone=CACHE_TZ) and adds one   *)
(* job with CronTrigger(hour=, minute=); on shutdown it stops the          *)
(* scheduler and closes the client.  A CronTrigger built without a         *)
(* timezone argument takes the local zone of the process, and a trigger    *)
(* passed to add_job as an object is used as it is: the zone given to the  *)
(* scheduler reaches only triggers that add_job builds itself.  The local  *)
(* zone belongs to the environment of the process.  kb holds the state of  *)
(* the process.                                                            *)
(***************************************************************************)
JOB_ID == "daily-cache-flush"

\* CronTrigger(hour=, minute=) built in a process whose local zone is
\* localzone: the zone the trigger computes its fire times in.
CronTrigger_timezone(localzone, scheduler_tz) == localzone

\* The fire times of the trigger: the instants that read hour:minute:00
\* in its zone.
FireTimes(job) == CutoffInstants(job.zone, CACHE_RESET_HOUR, CACHE_RESET_MINUTE)

\* The instants the model visits: the start and, for two days after it,
\* every instant that reads the cutoff time in one of the zones.
SchedHorizon == StartInstant + 2 * SecPerDay * SubSec
SchedPoints ==
    {StartInstant} \cup
      { c \in UNION { CutoffInstants(z, CACHE_RESET_HOUR, CACHE_RESET_MINUTE) : z \in Zones } :
          c > StartInstant /\ c <= SchedHorizon }

\* The jobs that are due: the scheduler runs, the instant is a fire time,
\* and the job has not run at it.
DueJobs ==
    IF kb.phase = "up"
    THEN { j \in kb.jobs : now \in FireTimes(j) /\ now \notin RowsIn(kb.fired) }
    ELSE {}

SchedInit ==
    /\ now = StartInstant
    /\ tzname \in SysZones
    /\ \E lz \in Zones :
          kb = [ phase |-> "down", localzone |-> lz, jobs |-> {},
                 client |-> "none", startedAt |-> -1, fired |-> <<>> ]
    /\ cache = WithEntry(EmptyCache, ForeignKey, PyDict(<< <<"v", PyInt(1)>> >>),
                         5 * SecPerDay, StartInstant)
    /\ relation = SeedRows
    /\ flushes = {}
    /\ req = <<>>
    /\ clk = ClockIdle

\* lifespan, up to the yield.
Lifespan_startup ==
    /\ kb.phase = "down"
    /\ kb' = [kb EXCEPT
                !.phase = "up", !.client = "open", !.startedAt = now,
                !.jobs = { j \in @ : j.id # JOB_ID } \cup
                            { [ id |-> JOB_ID,
                                zone |-> CronTrigger_timezone(kb.localzone, tzname) ] }]
    /\ UNCHANGED <<now, tzname, cache, relation, flushes, req, clk>>

\* The scheduler runs a due job: flush_all(redis_client).
Run_flush_job ==
    /\ DueJobs # {}
    /\ cache' = EmptyCache
    /\ flushes' = flushes \cup {now}
    /\ kb' = [kb EXCEPT !.fired = Append(@, now)]
    /\ UNCHANGED <<now, tzname, relation, req, clk>>

\* lifespan, after the yield: scheduler.shutdown(wait=False) and
\* redis_client.aclose().
Lifespan_shutdown ==
    /\ kb.phase = "up"
    /\ kb' = [kb EXCEPT !.phase = "stopped", !.jobs = {}, !.client = "closed"]
    /\ UNCHANGED <<now, tzname, cache, relation, flushes, req, clk>>

\* Time passes to the next instant of the model; a running scheduler does
\* not let the fire time of a job pass.
SchedTick ==
    /\ DueJobs = {}
    /\ \E t \in SchedPoints :
          /\ t > now
          /\ \A u \in SchedPoints : u > now => t <= u
          /\ now' = t
          /\ cache' = Unexpired(cache, t)
    /\ UNCHANGED <<tzname, relation, flushes, req, clk, kb>>

SchedNext ==
    \/ Lifespan_startup
    \/ Run_flush_job
    \/ Lifespan_shutdown
    \/ SchedTick

SpecScheduler == SchedInit /\ [][SchedNext]_vars

\* The flushes of the process are those of one job that fires once at
\* every instant that reads the cutoff time in the zone, from its start to
\* its shutdown; after the shutdown the client is closed.
FlushesDailyIn(zone) ==
    /\ flushes \subseteq CutoffInstants(zone, CACHE_RESET_HOUR, CACHE_RESET_MINUTE)
    /\ \A i, j \in 1 .. Len(kb.fired) : kb.fired[i] = kb.fired[j] => i = j
    /\ kb.phase = "up" =>
          /\ \A c \in CutoffInstants(zone, CACHE_RESET_HOUR, CACHE_RESET_MINUTE) :
                (kb.startedAt < c /\ c < now) => c \in flushes
          /\ { j.id : j \in kb.jobs } = {JOB_ID}
          /\ Cardinality(kb.jobs) = 1
    /\ kb.phase = "stopped" => (kb.client = "closed" /\ kb.jobs = {})

\* C31: while the application runs, flush_all runs exactly once a day, at
\* the cutoff hour:minute in the cache time zone that the TTLs use; one
\* job is registered per start; after the shutdown no flush runs and the
\* client is closed.
C31_FlushDailyInCacheZone ==
    [][/\ FlushesDailyIn(tzname)'
       /\ kb.phase = "stopped" => flushes' = flushes]_vars

\* What holds of the schedule: the same, at the cutoff hour:minute in the
\* local zone of the process.
C31_FlushDailyInLocalZone ==
    [][/\ FlushesDailyIn(kb.localzone)'
       /\ kb.phase = "stopped" => flushes' = flushes]_vars

\* C32: the lookup of a request, a hit included, leaves the cache as it
\* is: the value and the expiry of the entry stay as the store of the miss
\* wrote them, the expiry being the clock's value at the write, so hits do
\* not extend the life of an entry.
C32_HitLeavesCacheUnchanged ==
    [][\A r \in Requests :
          (req[r].pc = "cache_get" /\ req'[r].pc # "cache_get") =>
             /\ cache' = cache
             /\ req'[r].outcome = "hit" =>
                   LET e == cache'[req[r].key]
                   IN  /\ e.raw = Serialized(req'[r].result)
                       /\ e.expireAt =
                             e.writtenAt + cache_ttl(e.writtenAt, tzname) * SubSec]_vars

\* C32 witness: a request was answered from the entry a miss stored, at a
\* later instant than the store, and the entry is there as written.
C32_Witness ==
    \E a, b \in Requests :
        /\ req[a].outcome = "miss"
        /\ req[b].outcome = "hit"
        /\ req[a].key = req[b].key
        /\ req[a].key \in DOMAIN cache
        /\ cache[req[a].key].raw = Serialized(req[a].result)
        /\ cache[req[a].key].writtenAt < now
        /\ cache[req[a].key].expireAt =
              cache[req[a].key].writtenAt
                 + cache_ttl(cache[req[a].key].writtenAt, tzname) * SubSec

(***************************************************************************)
(* The service while the relation changes: the loader that owns the table  *)
(* (not part of this service) inserts rows between the steps of the        *)
(* requests; time passes over the cutoff and the flush runs.               *)
(***************************************************************************)
\* A row of a new trading day.
NewRow ==
    [SeedRow2 EXCEPT !.id = 5, !.exchange_product_id = "100",
                     !.date = <<2023, 1, 12>>]

\* The loader inserts a row.  kb records, for the properties only, the
\* requests that were between the two reads of
\* get_trading_results_for_last_day when the row came in.
Ingest ==
    /\ \E row \in {RepoRowC, NewRow} \ relation :
          /\ relation' = relation \cup {row}
          /\ kb' = kb \cup { <<r, row>> : r \in { q \in Requests : req[q].pc = "repo_day" } }
    /\ UNCHANGED <<now, tzname, cache, flushes, req, clk>>

StaleInit ==
    /\ now = StartInstant
    /\ tzname = "Europe/Moscow"
    /\ cache = EmptyCache
    /\ relation = SeedRows
    /\ flushes = {}
    /\ req = [r \in Requests |-> IdleReq]
    /\ clk = ClockIdle
    /\ kb = {}

StaleNext ==
    \/ \E r \in Requests : Svc_get_last_trading_dates(r, FlushDays)
    \/ \E r \in Requests : Svc_get_dynamics(r, Q_base)
    \/ \E r \in Requests :
          Svc_get_trading_results(r, FlushFilter[1], FlushFilter[2], FlushFilter[3])
    \/ \E r \in Requests : CacheGet(r)
    \/ \E r \in Requests : RepoLastDates(r)
    \/ \E r \in Requests : RepoDynamics(r)
    \/ \E r \in Requests : RepoLastDay(r)
    \/ \E r \in Requests : RepoRowsOfDay(r)
    \/ \E r \in Requests : CacheSet(r)
    \/ Ingest
    \/ Tick
    \/ flush_all

SpecStale == StaleInit /\ [][StaleNext]_vars

EmptyInit ==
    /\ now = StartInstant
    /\ tzname = "Europe/Moscow"
    /\ cache = EmptyCache
    /\ relation \in {{}, SeedRows}
    /\ flushes = {}
    /\ req = [r \in Requests |-> IdleReq]
    /\ clk = ClockIdle
    /\ kb = None

EmptyNext ==
    \/ \E r \in Requests : Svc_get_last_trading_dates(r, FlushDays)
    \/ \E r \in Requests, oil \in {PyNone, PyStr("O9")} :
          Svc_get_dynamics(r, [Q_base EXCEPT !.oil_id = oil])
    \/ \E r \in Requests, oil \in {PyNone, PyStr("O9")} :
          Svc_get_trading_results(r, oil, PyNone, PyNone)
    \/ \E r \in Requests : CacheGet(r)
    \/ \E r \in Requests : RepoLastDates(r)
    \/ \E r \in Requests : RepoDynamics(r)
    \/ \E r \in Requests : RepoLastDay(r)
    \/ \E r \in Requests : RepoRowsOfDay(r)
    \/ \E r \in Requests : CacheSet(r)

SpecEmpty == EmptyInit /\ [][EmptyNext]_vars

\* The result holds no row, or no date.
IsEmptyResult(op, res) ==
    IF op = "last_trading_dates" THEN DictGet(res, K_dates)[2] = <<>>
    ELSE res[2] = <<>>

\* C34: a miss whose result is empty stores it like any other, and a
\* lookup that finds a stored empty result is a hit that returns the empty
\* result with no repository call.
C34_EmptyResultIsCached ==
    [][\A r \in Requests :
          /\ (req[r].pc = "cache_set" /\ req'[r].pc = "done"
                /\ IsEmptyResult(req[r].op, req'[r].result)) =>
                /\ req[r].key \in DOMAIN cache'
                /\ cache'[req[r].key].raw = Serialized(req'[r].result)
          /\ (req[r].pc = "cache_get" /\ req'[r].pc # "cache_get"
                /\ Readable(cache, req[r].key, now)) =>
                /\ req'[r].pc = "done"
                /\ req'[r].outcome = "hit"
                /\ req'[r].trace = <<"get">>
                /\ cache[req[r].key].raw = Serialized(req'[r].result)]_vars

\* C34 witness: a miss returned an empty list of rows and a later request
\* with the same key was answered from the cache with the empty list.
C34_Witness ==
    \E a, b \in Requests :
        /\ req[a].outcome = "miss"
        /\ req[a].op # "last_trading_dates"
        /\ IsEmptyResult(req[a].op, req[a].result)
        /\ req[b].outcome = "hit"
        /\ req[b].key = req[a].key
        /\ req[b].trace = <<"get">>
        /\ IsEmptyResult(req[b].op, req[b].result)

\* C35: with Redis and the database answering, every request that passes
\* validation completes with a success result at every instant of the day:
\* the only requests that end without a result are those the validation
\* rejected.
C35_ValidatedRequestsSucceed ==
    \A r \in Requests :
        req[r].pc = "failed" => req[r].outcome = "ValueError"

\* The part of C35 that the code keeps: a validated request fails only in
\* its store, and only when the expiry computed for it is zero.
C35_FailsOnlyOnZeroTtl ==
    [][\A r \in Requests :
          (req[r].pc # "failed" /\ req'[r].pc = "failed"
             /\ req'[r].outcome # "ValueError") =>
             /\ req[r].pc = "cache_set"
             /\ req'[r].outcome = "ResponseError"
             /\ cache_ttl(now, tzname) = 0]_vars

\* C36: the first read of get_trading_results_for_last_day observes the
\* latest date of the relation, and every row the second read returns
\* carries that date, whatever was inserted between the two reads.
C36_RowsCarryFirstReadDate ==
    [][\A r \in Requests :
          /\ (req[r].pc = "repo" /\ req[r].op = "trading_results"
                /\ req'[r].pc = "repo_day") =>
                req'[r].stash \in { PyDate(row.date) : row \in OfLatestDay }
          /\ (req[r].pc = "repo_day" /\ req'[r].pc = "cache_set") =>
                \A i \in 1 .. Len(req'[r].stash[2]) :
                    DictGet(req'[r].stash[2][i], K_date) = req[r].stash]_vars

\* C36 witness: a row of a later day came in between the two reads of a
\* call, and the call returned rows, all of the day its first read saw.
C36_Witness ==
    \E r \in Requests :
        /\ <<r, NewRow>> \in kb
        /\ req[r].pc = "cache_set"
        /\ req[r].op = "trading_results"
        /\ Len(req[r].stash[2]) > 0
        /\ \A i \in 1 .. Len(req[r].stash[2]) :
              /\ DictGet(req[r].stash[2][i], K_date) = PyDate(<<2023, 1, 11>>)
              /\ DateAfter(NewRow.date, <<2023, 1, 11>>)

(***************************************************************************)
(* Specifications.                                                         *)
(***************************************************************************)
SystemVars == <<now, tzname, cache, relation, flushes, req>>

ClockNext == ClockCompute /\ UNCHANGED <<SystemVars, kb>>

SpecClock ==
    ClockInit /\ [][ClockNext]_vars

KeyNext == KeyBuild /\ UNCHANGED <<SystemVars, clk>>

SpecKey ==
    KeyInit /\ [][KeyNext]_vars

ReqKeyNext == ReqKeyBuild /\ UNCHANGED <<SystemVars, clk>>

SpecReqKey ==
    ReqKeyInit /\ [][ReqKeyNext]_vars

=============================================================================
